---- MODULE Spec2Model ----
(***************************************************************************)
(* A model of the RV64 hart of invpt/rv: Hart (src/src/hart.rs) with its   *)
(* instruction handlers (src/src/hart/instruction.rs), CSR file            *)
(* (src/src/hart/csr.rs) and the Memory bus (src/src/memory.rs); and of    *)
(* BaseHart (src/irv/src/lib.rs, src/irv/src/instruction.rs) under the     *)
(* loop of its test harness (src/irv/tests/riscv-tests.rs), whose memory   *)
(* is filled by the ELF loader (src/irv-loader/src/lib.rs).                *)
(*                                                                         *)
(* A machine word is the set of its set bit positions: a u64 is a subset   *)
(* of 0..63, a u32/i32 a subset of 0..31, a byte a subset of 0..7.  Bitwise*)
(* and/or/and-not are intersection/union/difference; the arithmetic of the *)
(* code (wrapping add, shifts, casts) is defined on that representation at *)
(* full width.                                                             *)
(***************************************************************************)
EXTENDS Integers, Sequences, FiniteSets, TLC

\* ------------------------------------------------------------------ bounds

\* Size of the Memory buffer in u64 elements (Memory::new takes a [u64]).
MemDwords == 3

\* Longest program (in instructions) enumerated for the initial image.
ProgLen == 2

\* Number of execute() calls explored.
MaxSteps == 4

\* ------------------------------------------------------------ machine words

Pow2(n) == 2 ^ n

\* The word whose value is the natural number n (n < 2^31).
FromNat(n) == {i \in 0..30 : (n \div Pow2(i)) % 2 = 1}

\* The one value of a singleton set: `The({e : x \in {v}})` is e with x bound to
\* the value of v, as a `let x = v;` binds it.
The(S) == CHOOSE v \in S : TRUE

\* The weight of bit i in the word a.
Val(a, i) == IF i \in a THEN Pow2(i) ELSE 0

\* The value of a word that fits 31 bits.
ToNat(a) ==
    The({ Val(x, 0) + Val(x, 1) + Val(x, 2) + Val(x, 3) + Val(x, 4) + Val(x, 5)
          + Val(x, 6) + Val(x, 7) + Val(x, 8) + Val(x, 9) + Val(x, 10) + Val(x, 11)
          + Val(x, 12) + Val(x, 13) + Val(x, 14) + Val(x, 15) + Val(x, 16)
          + Val(x, 17) + Val(x, 18) + Val(x, 19) + Val(x, 20) + Val(x, 21)
          + Val(x, 22) + Val(x, 23) + Val(x, 24) + Val(x, 25) + Val(x, 26)
          + Val(x, 27) + Val(x, 28) + Val(x, 29) + Val(x, 30) : x \in {a} })

MaxBit(a) == CHOOSE i \in a : \A j \in a : j <= i

\* `a << k` and `a >> k` on a w-bit unsigned word, k < w.
Shl(a, k, w) == {i + k : i \in a} \cap (0..(w - 1))
Shr(a, k) == {i - k : i \in {j \in a : j >= k}}

\* `a >> k` on a w-bit signed word (arithmetic shift), k < w.
Sar(a, k, w) == Shr(a, k) \cup (IF (w - 1) \in a THEN (w - k)..(w - 1) ELSE {})

\* `x as uN`: truncation to the low w bits.
Trunc(a, w) == a \cap (0..(w - 1))

\* `x as iW as u64`: sign extension of a w-bit word to 64 bits.
SignExtend(a, w) ==
    IF (w - 1) \in a THEN Trunc(a, w) \cup (w..63) ELSE Trunc(a, w)

\* Bitwise complement of a w-bit word.
Not(a, w) == (0..(w - 1)) \ a

Xor(a, b) == (a \ b) \cup (b \ a)

\* The carry into bit i of x + y + cin: the carry-in or a bit where both are
\* set, propagated through every bit below i where at least one is set.
Carry(x, y, cin, i) ==
    \/ cin = 1 /\ \A k \in 0..(i - 1) : k \in x \cup y
    \/ \E j \in x \cap y : j < i /\ \A k \in (j + 1)..(i - 1) : k \in x \cup y

\* a + b + cin modulo 2^w.
AddCarry(a, b, cin, w) ==
    The({ {i \in 0..(w - 1) : ((i \in x) /= (i \in y)) /= Carry(x, y, cin, i)}
          : x \in {a}, y \in {b} })

\* wrapping_add / wrapping_sub on w-bit words.
WrappingAdd(a, b, w) == AddCarry(a, b, 0, w)
WrappingSub(a, b, w) == AddCarry(a, Not(b, w), 1, w)

\* Unsigned and signed (two's complement, w bits) less-than.
Ltu(a, b) == a /= b /\ MaxBit(Xor(a, b)) \in b
Lts(a, b, w) == Ltu(Xor(a, {w - 1}), Xor(b, {w - 1}))

\* `c as u64` for a bool.
BoolWord(c) == IF c THEN {0} ELSE {}

\* ------------------------------------------------- src/src/hart.rs: types

\* PrivilegeLevel, with the discriminants of the enum.
User == 0
Supervisor == 1
Machine == 3

PrivilegeLevel == {User, Supervisor, Machine}

\* TrapCause::exception / TrapCause::interrupt: the u64 stored in *cause.
exception(code) == FromNat(code)
interrupt(code) == FromNat(code) \cup {63}

InstructionAddressMisaligned == exception(0)
InstructionAccessFault == exception(1)
IllegalInstruction == exception(2)
Breakpoint == exception(3)
LoadAddressMisaligned == exception(4)
LoadAccessFault == exception(5)
StoreAmoAddressMisaligned == exception(6)
StoreAmoAccessFault == exception(7)
EnvironmentCallFromUMode == exception(8)
EnvironmentCallFromSMode == exception(9)
EnvironmentCallFromMMode == exception(11)

is_interrupt(cause) == 63 \in cause

\* ------------------------------------------- src/src/memory.rs: the Memory bus

\* Memory::size: the byte length of the buffer.
size(data) == Cardinality(DOMAIN data)

\* A variant of calculate_destination that tests the alignment before the
\* bounds.
calculate_destination_align_first(data, address, w) ==
    LET upper == WrappingAdd(address, FromNat(w), 64)
    IN IF ToNat(Trunc(address, 3)) % w /= 0
       THEN [ok |-> FALSE, err |-> "AddressMisaligned"]
       ELSE IF Ltu(address, upper) /\ ~Ltu(FromNat(size(data)), upper)
       THEN [ok |-> TRUE, ptr |-> ToNat(address)]
       ELSE [ok |-> FALSE, err |-> "AccessFault"]

\* A variant of calculate_destination with the two errors exchanged.
calculate_destination_errors_exchanged(data, address, w) ==
    LET upper == WrappingAdd(address, FromNat(w), 64)
    IN IF Ltu(address, upper) /\ ~Ltu(FromNat(size(data)), upper)
       THEN IF ToNat(address) % w = 0
            THEN [ok |-> TRUE, ptr |-> ToNat(address)]
            ELSE [ok |-> FALSE, err |-> "AccessFault"]
       ELSE [ok |-> FALSE, err |-> "AddressMisaligned"]

\* Memory::calculate_destination::<T> with size_of::<T>() = align_of::<T>() = w
\* (the buffer starts at a u64 boundary, so the pointer is aligned iff the
\* address is).  Ok carries the byte offset.
calculate_destination(data, address, w) ==
    LET upper == WrappingAdd(address, FromNat(w), 64)
    IN IF Ltu(address, upper) /\ ~Ltu(FromNat(size(data)), upper)
       THEN IF ToNat(address) % w = 0
            THEN [ok |-> TRUE, ptr |-> ToNat(address)]
            ELSE [ok |-> FALSE, err |-> "AddressMisaligned"]
       ELSE [ok |-> FALSE, err |-> "AccessFault"]

\* <Memory as Bus<u64, T>>::load, T of w bytes, little-endian.
Bus_load(data, address, w) ==
    LET d == calculate_destination(data, address, w)
    IN IF d.ok
       THEN [ok |-> TRUE,
             value |-> UNION {{8 * k + i : i \in data[d.ptr + k]} : k \in 0..(w - 1)}]
       ELSE d

\* <Memory as Bus<u64, T>>::store, T of w bytes, little-endian.
Bus_store(data, address, value, w) ==
    LET d == calculate_destination(data, address, w)
    IN IF d.ok
       THEN [ok |-> TRUE,
             data |-> [a \in DOMAIN data |->
                         IF a >= d.ptr /\ a < d.ptr + w
                         THEN {i - 8 * (a - d.ptr) :
                                 i \in {j \in value : j \div 8 = a - d.ptr}}
                         ELSE data[a]]]
       ELSE d

\* ------------------------------------------- src/src/hart/csr.rs: the CSR file

\* CsrAddress constants.
SSTATUS == \h100
MSTATUS == \h300
MEDELEG == \h302
SIE == \h104
MIE == \h304
STVEC == \h105
MTVEC == \h305
SSCRATCH == \h140
MSCRATCH == \h340
SEPC == \h141
MEPC == \h341
SCAUSE == \h142
MCAUSE == \h342
STVAL == \h143
MTVAL == \h343
SIP == \h144
MIP == \h344
MVENDORID == \hF11
MARCHID == \hF12
MIMPID == \hF13
MHARTID == \hF14

\* is_sufficient_privilege: `address.inner() >> 8 & 0b11 >= privilege as u16`.
is_sufficient_privilege(address, priv) == (address \div 256) % 4 >= priv

\* A variant of is_read_only that tests `== 0b10 << 10`.
is_read_only_wrong_bits(address) == (address \div 1024) % 4 = 2

\* is_read_only: `address.inner() & 0b11 << 10 == 0b11 << 10`.
is_read_only(address) == (address \div 1024) % 4 = 3

\* A closure handed to an access method or to l(): the operation it performs
\* and the value it captured.
FnOnce(op, captured) == [op |-> op, captured |-> captured]

\* Calling the closure f on v.
call_once(f, v) ==
    CASE f.op = "const" -> f.captured
      [] f.op = "or" -> v \cup f.captured
      [] f.op = "and_not" -> v \ f.captured
      [] f.op = "sign_extend" -> SignExtend(v, f.captured)
      [] f.op = "identity" -> v

\* The access methods: `self` is the stored word, f the caller's closure; the
\* result is the new stored word and the value returned to the caller.
ReadOnly_access(self, f) == [self |-> self, ret |-> self]
Ip_access(self, f) == [self |-> call_once(f, self), ret |-> call_once(f, self)]
Ie_access(self, f) == [self |-> call_once(f, self), ret |-> call_once(f, self)]
Tval_access(self, f) == [self |-> call_once(f, self), ret |-> call_once(f, self)]
Cause_access(self, f) == [self |-> call_once(f, self), ret |-> call_once(f, self)]
Epc_access(self, f) == [self |-> call_once(f, self), ret |-> call_once(f, self)]
Scratch_access(self, f) == [self |-> call_once(f, self), ret |-> call_once(f, self)]
Deleg_access(self, f) == [self |-> call_once(f, self), ret |-> call_once(f, self)]

\* A variant of Tvec::access that stores the closure's result unmasked.
Tvec_access_unmasked(self, f) == [self |-> call_once(f, self), ret |-> call_once(f, self)]

\* Tvec::access: `self.0 = f(self.0) & !0b10`.
Tvec_access(self, f) == [self |-> call_once(f, self) \ {1}, ret |-> call_once(f, self) \ {1}]

Tvec_mode(self) == self \cap {0, 1}
Tvec_base(self) == self \ {0, 1}

\* A variant of is_delegated that tests the bit above the cause's.
is_delegated_off_by_one(self, trap) == (ToNat(Trunc(trap, 6)) + 1 \in self)

\* Deleg::is_delegated: `self.0.wrapping_shr(trap as u32) & 0b1 != 0`.
is_delegated(self, trap) == (ToNat(Trunc(trap, 6)) \in self)

M_WRITE_MASK == {1, 3, 5, 7, 8, 17, 18, 19, 20, 21, 22}
S_WRITE_MASK == {1, 5, 8, 18, 19}
S_READ_MASK == S_WRITE_MASK

Status_write(self, v, mask) == (self \ mask) \cup (v \cap mask)

access_mstatus(self, f) ==
    [self |-> Status_write(self, call_once(f, self), M_WRITE_MASK),
     ret |-> Status_write(self, call_once(f, self), M_WRITE_MASK)]

access_sstatus(self, f) ==
    [self |-> Status_write(self, call_once(f, self), S_WRITE_MASK),
     ret |-> Status_write(self, call_once(f, self), S_WRITE_MASK) \cap S_READ_MASK]

\* --------------------------------- src/src/hart/instruction.rs: field extractors

\* `raw as usize >> 7 & 0b11111` and its siblings: a register index in 0..31.
rd(raw) == ToNat(Shr(raw, 7) \cap (0..4))
rs1(raw) == ToNat(Shr(raw, 15) \cap (0..4))
rs2(raw) == ToNat(Shr(raw, 20) \cap (0..4))

\* The immediates, as the i32 the extractor returns.
i_imm(raw) == Sar(raw, 20, 32)

s_imm(raw) == (Sar(raw, 7, 32) \cap (0..4)) \cup (Sar(raw, 20, 32) \cap (5..31))

b_imm(raw) ==
    (Shr(raw, 7) \cap {1, 2, 3, 4})
        \cup (Sar(raw, 20, 32) \cap ((5..31) \ {11}))
        \cup (Shl(raw, 4, 32) \cap {11})

u_imm(raw) == raw \cap (12..31)

j_imm(raw) ==
    (Sar(raw, 20, 32) \cap ((1..31) \ {11})) \cup (Shr(raw, 9) \cap {11})

shamt(raw) == ToNat(Shr(raw, 20) \cap (0..5))

csr_index(raw) == ToNat(Shr(raw, 20) \cap (0..11))

uimm(raw) == Shr(raw, 15) \cap (0..4)

\* `x as u64` for an i32 x (sign-extending cast).
as_u64(x) == SignExtend(x, 32)

\* ------------------------------------------------ src/src/hart.rs: the hart
\* A hart is the record of Hart's fields; `traps` and `reads` are the log of the
\* current step (the trap() calls made and the source registers read), kept to
\* state properties and read by no handler.

\* hart.gpr[rd] = value
SetGpr(hart, i, value) == [hart EXCEPT !.gpr[i] = value]

\* Logs one read of hart.gpr[i] as a source operand.
Read(hart, i) == [hart EXCEPT !.reads = @ \cup {<<i, hart.gpr[i]>>}]

\* A variant of handle_trap_machine that takes the handler address from mtvec
\* without looking at its mode.
handle_trap_machine_any_mode(hart, cause, value) ==
    LET c == [hart.csr EXCEPT !.mcause = cause,
                              !.mepc = IF is_interrupt(cause) THEN hart.next ELSE hart.pc,
                              !.mtval = value]
    IN [hart EXCEPT !.csr = c, !.next = c.mtvec]

\* A variant of handle_trap_machine that records the trap value in mhartid.
handle_trap_machine_tval_in_mhartid(hart, cause, value) ==
    LET c == [hart.csr EXCEPT !.mcause = cause,
                              !.mepc = IF is_interrupt(cause) THEN hart.next ELSE hart.pc,
                              !.mhartid = value]
    IN [hart EXCEPT !.csr = c,
                    !.next = IF Tvec_mode(c.mtvec) = {} THEN Tvec_base(c.mtvec) ELSE @]

\* A variant of handle_trap_machine that leaves next alone in direct mode too.
handle_trap_machine_no_redirect(hart, cause, value) ==
    [hart EXCEPT !.csr = [hart.csr EXCEPT
                             !.mcause = cause,
                             !.mepc = IF is_interrupt(cause) THEN hart.next ELSE hart.pc,
                             !.mtval = value]]

handle_trap_machine(hart, cause, value) ==
    LET c == [hart.csr EXCEPT !.mcause = cause,
                              !.mepc = IF is_interrupt(cause) THEN hart.next ELSE hart.pc,
                              !.mtval = value]
    IN [hart EXCEPT !.csr = c,
                    !.next = IF Tvec_mode(c.mtvec) = {} THEN Tvec_base(c.mtvec) ELSE @]

\* A variant of handle_trap_supervisor that saves next in sepc for every cause.
handle_trap_supervisor_epc_next(hart, cause, value) ==
    LET c == [hart.csr EXCEPT !.scause = cause, !.sepc = hart.next, !.stval = value]
    IN [hart EXCEPT !.csr = c,
                    !.next = IF Tvec_mode(c.stvec) = {} THEN Tvec_base(c.stvec) ELSE @]

\* A variant of handle_trap_supervisor that saves the pc in mepc as well.
handle_trap_supervisor_sets_mepc(hart, cause, value) ==
    LET c == [hart.csr EXCEPT !.scause = cause,
                              !.sepc = IF is_interrupt(cause) THEN hart.next ELSE hart.pc,
                              !.mepc = IF is_interrupt(cause) THEN hart.next ELSE hart.pc,
                              !.stval = value]
    IN [hart EXCEPT !.csr = c,
                    !.next = IF Tvec_mode(c.stvec) = {} THEN Tvec_base(c.stvec) ELSE @]

handle_trap_supervisor(hart, cause, value) ==
    LET c == [hart.csr EXCEPT !.scause = cause,
                              !.sepc = IF is_interrupt(cause) THEN hart.next ELSE hart.pc,
                              !.stval = value]
    IN [hart EXCEPT !.csr = c,
                    !.next = IF Tvec_mode(c.stvec) = {} THEN Tvec_base(c.stvec) ELSE @]

\* A variant of Hart::trap that hands a delegated cause to the supervisor
\* handler from every privilege level, Machine included.
trap_delegates_from_machine(hart0, cause, value) ==
    LET hart == [hart0 EXCEPT !.traps = Append(@, [cause |-> cause, value |-> value])]
    IN IF is_delegated(hart.csr.medeleg, cause) \/ is_delegated(hart.csr.mideleg, cause)
       THEN handle_trap_supervisor([hart EXCEPT !.privilege = Supervisor], cause, value)
       ELSE handle_trap_machine([hart EXCEPT !.privilege = Machine], cause, value)

\* Hart::trap
trap(hart0, cause, value) ==
    LET hart == [hart0 EXCEPT !.traps = Append(@, [cause |-> cause, value |-> value])]
        h1 == IF hart.privilege = User
              THEN [hart EXCEPT !.privilege = Supervisor] ELSE hart
    IN IF h1.privilege = Supervisor
       THEN IF is_delegated(h1.csr.medeleg, cause) \/ is_delegated(h1.csr.mideleg, cause)
            THEN handle_trap_supervisor(h1, cause, value)
            ELSE handle_trap_machine([h1 EXCEPT !.privilege = Machine], cause, value)
       ELSE handle_trap_machine(h1, cause, value)

\* A variant of Hart::csr with an arm for mideleg at its address 0x303.
Hart_csr_dispatches_mideleg(c, address, f) ==
    LET Ok(field, r) == [ok |-> TRUE, csr |-> [c EXCEPT ![field] = r.self], value |-> r.ret]
    IN CASE address = SSTATUS -> Ok("status", access_mstatus(c.status, f))
         [] address = MSTATUS -> Ok("status", access_sstatus(c.status, f))
         [] address = MEDELEG -> Ok("medeleg", Deleg_access(c.medeleg, f))
         [] address = \h303 -> Ok("mideleg", Deleg_access(c.mideleg, f))
         [] address = SIE -> Ok("sie", Ie_access(c.sie, f))
         [] address = MIE -> Ok("mie", Ie_access(c.mie, f))
         [] address = STVEC -> Ok("stvec", Tvec_access(c.stvec, f))
         [] address = MTVEC -> Ok("mtvec", Tvec_access(c.mtvec, f))
         [] address = SSCRATCH -> Ok("sscratch", Scratch_access(c.sscratch, f))
         [] address = MSCRATCH -> Ok("mscratch", Scratch_access(c.mscratch, f))
         [] address = SEPC -> Ok("sepc", Epc_access(c.sepc, f))
         [] address = MEPC -> Ok("mepc", Epc_access(c.mepc, f))
         [] address = SCAUSE -> Ok("scause", Cause_access(c.scause, f))
         [] address = MCAUSE -> Ok("mcause", Cause_access(c.mcause, f))
         [] address = STVAL -> Ok("stval", Tval_access(c.stval, f))
         [] address = MTVAL -> Ok("mtval", Tval_access(c.mtval, f))
         [] address = SIP -> Ok("sip", Ip_access(c.sip, f))
         [] address = MIP -> Ok("mip", Ip_access(c.mip, f))
         [] address = MVENDORID -> Ok("mvendorid", ReadOnly_access(c.mvendorid, f))
         [] address = MARCHID -> Ok("marchid", ReadOnly_access(c.marchid, f))
         [] address = MIMPID -> Ok("mimpid", ReadOnly_access(c.mimpid, f))
         [] address = MHARTID -> Ok("mhartid", ReadOnly_access(c.mhartid, f))
         [] OTHER -> [ok |-> FALSE]

\* Hart::csr: the dispatch on the address.  Ok carries the CSR file after the
\* access and the value the access returned.
Hart_csr(c, address, f) ==
    LET Ok(field, r) == [ok |-> TRUE, csr |-> [c EXCEPT ![field] = r.self], value |-> r.ret]
    IN CASE address = SSTATUS -> Ok("status", access_mstatus(c.status, f))
         [] address = MSTATUS -> Ok("status", access_sstatus(c.status, f))
         [] address = MEDELEG -> Ok("medeleg", Deleg_access(c.medeleg, f))
         [] address = SIE -> Ok("sie", Ie_access(c.sie, f))
         [] address = MIE -> Ok("mie", Ie_access(c.mie, f))
         [] address = STVEC -> Ok("stvec", Tvec_access(c.stvec, f))
         [] address = MTVEC -> Ok("mtvec", Tvec_access(c.mtvec, f))
         [] address = SSCRATCH -> Ok("sscratch", Scratch_access(c.sscratch, f))
         [] address = MSCRATCH -> Ok("mscratch", Scratch_access(c.mscratch, f))
         [] address = SEPC -> Ok("sepc", Epc_access(c.sepc, f))
         [] address = MEPC -> Ok("mepc", Epc_access(c.mepc, f))
         [] address = SCAUSE -> Ok("scause", Cause_access(c.scause, f))
         [] address = MCAUSE -> Ok("mcause", Cause_access(c.mcause, f))
         [] address = STVAL -> Ok("stval", Tval_access(c.stval, f))
         [] address = MTVAL -> Ok("mtval", Tval_access(c.mtval, f))
         [] address = SIP -> Ok("sip", Ip_access(c.sip, f))
         [] address = MIP -> Ok("mip", Ip_access(c.mip, f))
         [] address = MVENDORID -> Ok("mvendorid", ReadOnly_access(c.mvendorid, f))
         [] address = MARCHID -> Ok("marchid", ReadOnly_access(c.marchid, f))
         [] address = MIMPID -> Ok("mimpid", ReadOnly_access(c.mimpid, f))
         [] address = MHARTID -> Ok("mhartid", ReadOnly_access(c.mhartid, f))
         [] OTHER -> [ok |-> FALSE]

\* ------------------------------------ src/src/hart/instruction.rs: handlers

lui(hart, raw) == SetGpr(hart, rd(raw), as_u64(u_imm(raw)))

auipc(hart, raw) ==
    SetGpr(hart, rd(raw), WrappingAdd(hart.pc, as_u64(u_imm(raw)), 64))

jal(hart, raw) ==
    LET h == SetGpr(hart, rd(raw), hart.next)
        target == WrappingAdd(h.pc, as_u64(j_imm(raw)), 64)
    IN IF target \cap {0, 1} = {}
       THEN [h EXCEPT !.next = target]
       ELSE trap(h, InstructionAddressMisaligned, target)

jalr(hart, raw) ==
    LET h == Read(SetGpr(hart, rd(raw), hart.next), rs1(raw))
        target == WrappingAdd(h.gpr[rs1(raw)], as_u64(i_imm(raw)), 64) \ {0}
    IN IF target \cap {0, 1} = {}
       THEN [h EXCEPT !.next = target]
       ELSE trap(h, InstructionAddressMisaligned, target)

\* A variant of branch that commits the target without the alignment check.
branch_unchecked(hart, raw, condition) ==
    IF condition
    THEN [hart EXCEPT !.next = WrappingAdd(hart.pc, as_u64(b_imm(raw)), 64)]
    ELSE hart

branch(hart, raw, condition) ==
    LET target == WrappingAdd(hart.pc, as_u64(b_imm(raw)), 64)
    IN IF condition
       THEN IF target \cap {0, 1} = {}
            THEN [hart EXCEPT !.next = target]
            ELSE trap(hart, InstructionAddressMisaligned, target)
       ELSE hart

\* The two source registers of an R-, S- or B-type instruction, logged as read.
Read2(hart, raw) == Read(Read(hart, rs1(raw)), rs2(raw))

beq(hart, raw) ==
    branch(Read2(hart, raw), raw, hart.gpr[rs1(raw)] = hart.gpr[rs2(raw)])

bne(hart, raw) ==
    branch(Read2(hart, raw), raw, hart.gpr[rs1(raw)] /= hart.gpr[rs2(raw)])

blt(hart, raw) ==
    branch(Read2(hart, raw), raw, Lts(hart.gpr[rs1(raw)], hart.gpr[rs2(raw)], 64))

bge(hart, raw) ==
    branch(Read2(hart, raw), raw, ~Lts(hart.gpr[rs1(raw)], hart.gpr[rs2(raw)], 64))

bltu(hart, raw) ==
    branch(Read2(hart, raw), raw, Ltu(hart.gpr[rs1(raw)], hart.gpr[rs2(raw)]))

bgeu(hart, raw) ==
    branch(Read2(hart, raw), raw, ~Ltu(hart.gpr[rs1(raw)], hart.gpr[rs2(raw)]))

\* A variant of l that clears gpr[rd] before it reports a bus error.
l_clears_rd_on_fault(hart, raw, w, convert) ==
    LET h == Read(hart, rs1(raw))
        address == WrappingAdd(hart.gpr[rs1(raw)], as_u64(i_imm(raw)), 64)
        r == Bus_load(hart.bus, address, w)
    IN IF r.ok THEN SetGpr(h, rd(raw), call_once(convert, r.value))
       ELSE IF r.err = "AccessFault"
       THEN trap(SetGpr(h, rd(raw), {}), LoadAccessFault, address)
       ELSE trap(SetGpr(h, rd(raw), {}), LoadAddressMisaligned, address)

\* l::<T, B>: w is size_of::<T>().
l(hart, raw, w, convert) ==
    LET h == Read(hart, rs1(raw))
        address == WrappingAdd(hart.gpr[rs1(raw)], as_u64(i_imm(raw)), 64)
        r == Bus_load(hart.bus, address, w)
    IN IF r.ok THEN SetGpr(h, rd(raw), call_once(convert, r.value))
       ELSE IF r.err = "AccessFault" THEN trap(h, LoadAccessFault, address)
       ELSE trap(h, LoadAddressMisaligned, address)

lb(hart, raw) == l(hart, raw, 1, FnOnce("sign_extend", 8))
lh(hart, raw) == l(hart, raw, 2, FnOnce("sign_extend", 16))
lw(hart, raw) == l(hart, raw, 4, FnOnce("sign_extend", 32))
ld(hart, raw) == l(hart, raw, 8, FnOnce("identity", {}))
lbu(hart, raw) == l(hart, raw, 1, FnOnce("identity", {}))
\* lhu and lwu are declared with `B: Bus<u64, u8>`, which fixes T = u8.
lhu(hart, raw) == l(hart, raw, 1, FnOnce("identity", {}))
lwu(hart, raw) == l(hart, raw, 1, FnOnce("identity", {}))

\* A variant of s that writes the low byte of a misaligned store before it
\* reports the error.
s_partial_store(hart, raw, w) ==
    LET h == Read2(hart, raw)
        address == WrappingAdd(hart.gpr[rs1(raw)], as_u64(s_imm(raw)), 64)
        value == Trunc(hart.gpr[rs2(raw)], 8 * w)
        r == Bus_store(hart.bus, address, value, w)
    IN IF r.ok THEN [h EXCEPT !.bus = r.data]
       ELSE IF r.err = "AccessFault" THEN trap(h, StoreAmoAccessFault, address)
       ELSE trap([h EXCEPT !.bus = Bus_store(hart.bus, address, Trunc(value, 8), 1).data],
                 StoreAmoAccessFault, address)

\* A variant of s that reports a misaligned store as StoreAmoAddressMisaligned.
s_reports_misaligned(hart, raw, w) ==
    LET h == Read2(hart, raw)
        address == WrappingAdd(hart.gpr[rs1(raw)], as_u64(s_imm(raw)), 64)
        value == Trunc(hart.gpr[rs2(raw)], 8 * w)
        r == Bus_store(hart.bus, address, value, w)
    IN IF r.ok THEN [h EXCEPT !.bus = r.data]
       ELSE IF r.err = "AccessFault" THEN trap(h, StoreAmoAccessFault, address)
       ELSE trap(h, StoreAmoAddressMisaligned, address)

\* s::<T, B>: w is size_of::<T>(), convert is `r as T`.
s(hart, raw, w) ==
    LET h == Read2(hart, raw)
        address == WrappingAdd(hart.gpr[rs1(raw)], as_u64(s_imm(raw)), 64)
        value == Trunc(hart.gpr[rs2(raw)], 8 * w)
        r == Bus_store(hart.bus, address, value, w)
    IN IF r.ok THEN [h EXCEPT !.bus = r.data]
       ELSE IF r.err = "AccessFault" THEN trap(h, StoreAmoAccessFault, address)
       ELSE trap(h, StoreAmoAccessFault, address)

sb(hart, raw) == s(hart, raw, 1)
sh(hart, raw) == s(hart, raw, 2)
sw(hart, raw) == s(hart, raw, 4)
sd(hart, raw) == s(hart, raw, 8)

\* gpr[rd] = value, for a handler that read rs1 (and, when two, rs2).
Op1(hart, raw, value) == SetGpr(Read(hart, rs1(raw)), rd(raw), value)
Op2(hart, raw, value) == SetGpr(Read2(hart, raw), rd(raw), value)

addi(hart, raw) ==
    Op1(hart, raw, WrappingAdd(hart.gpr[rs1(raw)], as_u64(i_imm(raw)), 64))

addiw(hart, raw) ==
    Op1(hart, raw,
        SignExtend(WrappingAdd(Trunc(hart.gpr[rs1(raw)], 32), i_imm(raw), 32), 32))

slti(hart, raw) ==
    Op1(hart, raw, BoolWord(Lts(hart.gpr[rs1(raw)], as_u64(i_imm(raw)), 64)))

sltiu(hart, raw) ==
    Op1(hart, raw, BoolWord(Ltu(hart.gpr[rs1(raw)], as_u64(i_imm(raw)))))

xori(hart, raw) == Op1(hart, raw, Xor(hart.gpr[rs1(raw)], as_u64(i_imm(raw))))

ori(hart, raw) == Op1(hart, raw, hart.gpr[rs1(raw)] \cup as_u64(i_imm(raw)))

andi(hart, raw) == Op1(hart, raw, hart.gpr[rs1(raw)] \cap as_u64(i_imm(raw)))

slli(hart, raw) == Op1(hart, raw, Shl(hart.gpr[rs1(raw)], shamt(raw) % 64, 64))

srxi(hart, raw) ==
    IF 30 \notin raw
    THEN Op1(hart, raw, Shr(hart.gpr[rs1(raw)], shamt(raw) % 64))
    ELSE Op1(hart, raw, Sar(hart.gpr[rs1(raw)], shamt(raw) % 64, 64))

slliw(hart, raw) ==
    Op1(hart, raw,
        SignExtend(Shl(Trunc(hart.gpr[rs1(raw)], 32), shamt(raw) % 32, 32), 32))

srxiw(hart, raw) ==
    IF 30 \notin raw
    THEN Op1(hart, raw,
             SignExtend(Shr(Trunc(hart.gpr[rs1(raw)], 32), shamt(raw) % 32), 32))
    ELSE Op1(hart, raw,
             SignExtend(Sar(Trunc(hart.gpr[rs1(raw)], 32), shamt(raw) % 32, 32), 32))

add_sub(hart, raw) ==
    IF 30 \notin raw
    THEN Op2(hart, raw, WrappingAdd(hart.gpr[rs1(raw)], hart.gpr[rs2(raw)], 64))
    ELSE Op2(hart, raw, WrappingSub(hart.gpr[rs1(raw)], hart.gpr[rs2(raw)], 64))

\* A variant of addw_subw that zero-extends the 32-bit result.
addw_subw_zero_extended(hart, raw) ==
    IF 30 \notin raw
    THEN Op2(hart, raw, WrappingAdd(Trunc(hart.gpr[rs1(raw)], 32),
                                   Trunc(hart.gpr[rs2(raw)], 32), 32))
    ELSE Op2(hart, raw, WrappingSub(Trunc(hart.gpr[rs1(raw)], 32),
                                   Trunc(hart.gpr[rs2(raw)], 32), 32))

addw_subw(hart, raw) ==
    IF 30 \notin raw
    THEN Op2(hart, raw,
             SignExtend(WrappingAdd(Trunc(hart.gpr[rs1(raw)], 32),
                                    Trunc(hart.gpr[rs2(raw)], 32), 32), 32))
    ELSE Op2(hart, raw,
             SignExtend(WrappingSub(Trunc(hart.gpr[rs1(raw)], 32),
                                    Trunc(hart.gpr[rs2(raw)], 32), 32), 32))

\* `gpr[rs2] as u32` as the amount of a wrapping shift of a w-bit word.
ShiftAmount(hart, raw, w) == ToNat(Trunc(hart.gpr[rs2(raw)], 6)) % w

sll(hart, raw) ==
    Op2(hart, raw, Shl(hart.gpr[rs1(raw)], ShiftAmount(hart, raw, 64), 64))

slt(hart, raw) ==
    Op2(hart, raw, BoolWord(Lts(hart.gpr[rs1(raw)], hart.gpr[rs2(raw)], 64)))

sltu(hart, raw) ==
    Op2(hart, raw, BoolWord(Ltu(hart.gpr[rs1(raw)], hart.gpr[rs2(raw)])))

xor(hart, raw) == Op2(hart, raw, Xor(hart.gpr[rs1(raw)], hart.gpr[rs2(raw)]))

srx(hart, raw) ==
    IF 30 \notin raw
    THEN Op2(hart, raw, Shr(hart.gpr[rs1(raw)], ShiftAmount(hart, raw, 64)))
    ELSE Op2(hart, raw, Sar(hart.gpr[rs1(raw)], ShiftAmount(hart, raw, 64), 64))

or(hart, raw) == Op2(hart, raw, hart.gpr[rs1(raw)] \cup hart.gpr[rs2(raw)])

and(hart, raw) == Op2(hart, raw, hart.gpr[rs1(raw)] \cap hart.gpr[rs2(raw)])

sllw(hart, raw) ==
    Op2(hart, raw,
        SignExtend(Shl(Trunc(hart.gpr[rs1(raw)], 32), ShiftAmount(hart, raw, 32), 32), 32))

srxw(hart, raw) ==
    IF 30 \notin raw
    THEN Op2(hart, raw,
             SignExtend(Shr(Trunc(hart.gpr[rs1(raw)], 32), ShiftAmount(hart, raw, 32)), 32))
    ELSE Op2(hart, raw,
             SignExtend(Sar(Trunc(hart.gpr[rs1(raw)], 32), ShiftAmount(hart, raw, 32), 32),
                        32))

fence(hart, raw) == hart

\* A variant of ecall_ebreak that reports every environment call as one from
\* machine mode.
ecall_ebreak_always_m(hart, raw) ==
    trap(hart, IF 20 \notin raw THEN EnvironmentCallFromMMode ELSE Breakpoint, {})

ecall_ebreak(hart, raw) ==
    LET cause == IF 20 \notin raw
                 THEN CASE hart.privilege = Machine -> EnvironmentCallFromMMode
                        [] hart.privilege = Supervisor -> EnvironmentCallFromSMode
                        [] hart.privilege = User -> EnvironmentCallFromUMode
                 ELSE Breakpoint
    IN trap(hart, cause, {})

\* A variant of csr_result that drops the instruction word from the trap value.
csr_result_no_tval(hart, raw, result) ==
    IF result.ok
    THEN SetGpr([hart EXCEPT !.csr = result.csr], rd(raw), result.value)
    ELSE trap(hart, IllegalInstruction, {})

\* The tail shared by the six CSR handlers: `match result { Ok(value) => ..,
\* Err(InvalidCsr) => trap }`.
csr_result(hart, raw, result) ==
    IF result.ok
    THEN SetGpr([hart EXCEPT !.csr = result.csr], rd(raw), result.value)
    ELSE trap(hart, IllegalInstruction, raw)

\* A variant of csrrw that, like csrrs, only reads the CSR when rs1 is x0.
csrrw_reads_when_x0(hart, raw) ==
    LET address == csr_index(raw)
        initial_rs1 == hart.gpr[rs1(raw)]
    IN IF is_read_only(address) \/ ~is_sufficient_privilege(address, hart.privilege)
       THEN trap(hart, IllegalInstruction, raw)
       ELSE csr_result(Read(hart, rs1(raw)), raw,
                       Hart_csr(hart.csr, address,
                                IF rs1(raw) = 0 THEN FnOnce("identity", {})
                                ELSE FnOnce("const", initial_rs1)))

csrrw(hart, raw) ==
    LET address == csr_index(raw)
        initial_rs1 == hart.gpr[rs1(raw)]
    IN IF is_read_only(address) \/ ~is_sufficient_privilege(address, hart.privilege)
       THEN trap(hart, IllegalInstruction, raw)
       ELSE csr_result(Read(hart, rs1(raw)), raw,
                       Hart_csr(hart.csr, address, FnOnce("const", initial_rs1)))

\* A variant of csrrs that rejects a read-only CSR whatever rs1 is.
csrrs_strict(hart, raw) ==
    LET address == csr_index(raw)
        initial_rs1 == hart.gpr[rs1(raw)]
    IN IF ~is_sufficient_privilege(address, hart.privilege) \/ is_read_only(address)
       THEN trap(hart, IllegalInstruction, raw)
       ELSE csr_result(Read(hart, rs1(raw)), raw,
                       Hart_csr(hart.csr, address, FnOnce("or", initial_rs1)))

csrrs(hart, raw) ==
    LET address == csr_index(raw)
        initial_rs1 == hart.gpr[rs1(raw)]
    IN IF ~is_sufficient_privilege(address, hart.privilege)
          \/ (rs1(raw) /= 0 /\ is_read_only(address))
       THEN trap(hart, IllegalInstruction, raw)
       ELSE csr_result(Read(hart, rs1(raw)), raw,
                       Hart_csr(hart.csr, address, FnOnce("or", initial_rs1)))

csrrc(hart, raw) ==
    LET address == csr_index(raw)
        initial_rs1 == hart.gpr[rs1(raw)]
    IN IF ~is_sufficient_privilege(address, hart.privilege)
          \/ (rs1(raw) /= 0 /\ is_read_only(address))
       THEN trap(hart, IllegalInstruction, raw)
       ELSE csr_result(Read(hart, rs1(raw)), raw,
                       Hart_csr(hart.csr, address, FnOnce("and_not", initial_rs1)))

csrrwi(hart, raw) ==
    LET address == csr_index(raw)
    IN IF is_read_only(address) \/ ~is_sufficient_privilege(address, hart.privilege)
       THEN trap(hart, IllegalInstruction, raw)
       ELSE csr_result(hart, raw, Hart_csr(hart.csr, address, FnOnce("const", uimm(raw))))

csrrsi(hart, raw) ==
    LET address == csr_index(raw)
    IN IF ~is_sufficient_privilege(address, hart.privilege)
          \/ (uimm(raw) /= {} /\ is_read_only(address))
       THEN trap(hart, IllegalInstruction, raw)
       ELSE csr_result(hart, raw,
                       Hart_csr(hart.csr, address, FnOnce("or", uimm(raw))))

csrrci(hart, raw) ==
    LET address == csr_index(raw)
    IN IF ~is_sufficient_privilege(address, hart.privilege)
          \/ (uimm(raw) /= {} /\ is_read_only(address))
       THEN trap(hart, IllegalInstruction, raw)
       ELSE csr_result(hart, raw,
                       Hart_csr(hart.csr, address, FnOnce("and_not", uimm(raw))))

\* ------------------------------------------ src/src/hart.rs: Hart::execute

\* The `match funct3_opcode` of execute(): the handler the key selects, applied.
instruction(funct3_opcode, hart, raw) ==
    CASE funct3_opcode % 128 = \b0110111 -> lui(hart, raw)
      [] funct3_opcode % 128 = \b0010111 -> auipc(hart, raw)
      [] funct3_opcode % 128 = \b1101111 -> jal(hart, raw)
      [] funct3_opcode = \b0001100111 -> jalr(hart, raw)
      [] funct3_opcode = \b0001100011 -> beq(hart, raw)
      [] funct3_opcode = \b0011100011 -> bne(hart, raw)
      [] funct3_opcode = \b1001100011 -> blt(hart, raw)
      [] funct3_opcode = \b1011100011 -> bge(hart, raw)
      [] funct3_opcode = \b1101100011 -> bltu(hart, raw)
      [] funct3_opcode = \b1111100011 -> bgeu(hart, raw)
      [] funct3_opcode = \b0000000011 -> lb(hart, raw)
      [] funct3_opcode = \b0010000011 -> lh(hart, raw)
      [] funct3_opcode = \b0100000011 -> lw(hart, raw)
      [] funct3_opcode = \b0110000011 -> ld(hart, raw)
      [] funct3_opcode = \b1000000011 -> lbu(hart, raw)
      [] funct3_opcode = \b1010000011 -> lhu(hart, raw)
      [] funct3_opcode = \b1100000011 -> lwu(hart, raw)
      [] funct3_opcode = \b0000100011 -> sb(hart, raw)
      [] funct3_opcode = \b0010100011 -> sh(hart, raw)
      [] funct3_opcode = \b0100100011 -> sw(hart, raw)
      [] funct3_opcode = \b0110100011 -> sd(hart, raw)
      [] funct3_opcode = \b0000010011 -> addi(hart, raw)
      [] funct3_opcode = \b0000011011 -> addiw(hart, raw)
      [] funct3_opcode = \b0100010011 -> slti(hart, raw)
      [] funct3_opcode = \b0110010011 -> sltiu(hart, raw)
      [] funct3_opcode = \b1000010011 -> xori(hart, raw)
      [] funct3_opcode = \b1100010011 -> ori(hart, raw)
      [] funct3_opcode = \b1110010011 -> andi(hart, raw)
      [] funct3_opcode = \b0010010011 -> slli(hart, raw)
      [] funct3_opcode = \b1010010011 -> srxi(hart, raw)
      [] funct3_opcode = \b0010011011 -> slliw(hart, raw)
      [] funct3_opcode = \b1010011011 -> srxiw(hart, raw)
      [] funct3_opcode = \b0000110011 -> add_sub(hart, raw)
      [] funct3_opcode = \b0000111011 -> addw_subw(hart, raw)
      [] funct3_opcode = \b0010110011 -> sll(hart, raw)
      [] funct3_opcode = \b0100110011 -> slt(hart, raw)
      [] funct3_opcode = \b0110110011 -> sltu(hart, raw)
      [] funct3_opcode = \b1000110011 -> xor(hart, raw)
      [] funct3_opcode = \b1010110011 -> srx(hart, raw)
      [] funct3_opcode = \b1100110011 -> or(hart, raw)
      [] funct3_opcode = \b1110110011 -> and(hart, raw)
      [] funct3_opcode = \b0010111011 -> sllw(hart, raw)
      [] funct3_opcode = \b1010111011 -> srxw(hart, raw)
      [] funct3_opcode = \b0000001111 -> fence(hart, raw)
      [] funct3_opcode = \b0001110011 -> ecall_ebreak(hart, raw)
      [] funct3_opcode = \b0011110011 -> csrrw(hart, raw)
      [] funct3_opcode = \b0101110011 -> csrrs(hart, raw)
      [] funct3_opcode = \b0111110011 -> csrrc(hart, raw)
      [] funct3_opcode = \b1011110011 -> csrrwi(hart, raw)
      [] funct3_opcode = \b1101110011 -> csrrsi(hart, raw)
      [] funct3_opcode = \b1111110011 -> csrrci(hart, raw)
      [] OTHER -> trap(hart, IllegalInstruction, raw)

\* A variant of the selector that keeps only two bits of funct3.
key_two_bits_of_funct3(raw) == ToNat((raw \cap (0..6)) \cup (Shr(raw, 5) \cap {7, 8}))

\* `raw & 0b1111111 | raw >> 5 & 0b111 << 7`
key(raw) == ToNat((raw \cap (0..6)) \cup (Shr(raw, 5) \cap {7, 8, 9}))

\* The fetch of execute(): bus.load::<u32>(pc).
fetch(hart) == Bus_load(hart.bus, hart.pc, 4)

\* Hart::execute.  A failed fetch returns from trap() without reaching
\* `self.pc = self.next`.
execute(hart) ==
    The({ IF ~r.ok
          THEN IF r.err = "AccessFault"
               THEN trap(hart, InstructionAccessFault, hart.pc)
               ELSE trap(hart, InstructionAddressMisaligned, hart.pc)
          ELSE The({ [done EXCEPT !.pc = done.next]
                     : done \in { instruction(funct3_opcode, h, r.value)
                                  : funct3_opcode \in {key(r.value)},
                                    h \in {[hart EXCEPT
                                              !.gpr[0] = {},
                                              !.next = WrappingAdd(hart.pc, FromNat(4), 64)]} } })
          : r \in {fetch(hart)} })

\* ------------------------------------------------------ BaseHart (src/irv)
\* BaseHart has no privilege levels and no trap handling: a handler records an
\* Exception in the latch `result`, and execute() hands it to the caller.  The
\* hart is a record [B, bus, pc, next, gpr, csr, result] with the logs `raised`
\* (the exceptions passed to raise()) and `reads`.

\* Result<(), Exception>
Ok == [ok |-> TRUE]
Err(e) == [ok |-> FALSE, err |-> e]

\* NonZeroU64::new / NonZeroU32::new: None is {}, Some(v) is {v}.
NonZero_new(v) == IF v = {} THEN {} ELSE {v}

Exception(kind, address) == [kind |-> kind, address |-> NonZero_new(address)]
EnvironmentCall == [kind |-> "EnvironmentCall", address |-> {}]

\* const TEST_BUS_BASE: u64 = 0x80000000
TEST_BUS_BASE == {31}

\* TestBus: the Memory, offset by TEST_BUS_BASE.
TestBus_load(data, address, w) ==
    The({ Bus_load(data, a, w) : a \in {WrappingSub(address, TEST_BUS_BASE, 64)} })
TestBus_store(data, address, value, w) ==
    The({ Bus_store(data, a, v, w)
          : a \in {WrappingSub(address, TEST_BUS_BASE, 64)}, v \in {value} })

\* hart.bus.load / hart.bus.store of a BaseHart<B, C>: B is the harness's
\* TestBus, or the Memory itself.
BaseHart_bus_load(hart, address, w) ==
    IF hart.B = "TestBus" THEN TestBus_load(hart.bus, address, w)
    ELSE Bus_load(hart.bus, address, w)
BaseHart_bus_store(hart, address, value, w) ==
    IF hart.B = "TestBus" THEN TestBus_store(hart.bus, address, value, w)
    ELSE Bus_store(hart.bus, address, value, w)

\* BaseHart::raise
raise(hart, e) ==
    [hart EXCEPT !.result = Err(e), !.raised = Append(@, e)]

BaseHart_jal(hart, raw) ==
    LET h == SetGpr(hart, rd(raw), hart.next)
        target == WrappingAdd(h.pc, as_u64(j_imm(raw)), 64)
    IN IF target \cap {0, 1} = {}
       THEN [h EXCEPT !.next = target]
       ELSE raise(h, Exception("InstructionAddressMisaligned", target))

\* BaseHart's jalr computes the target before it writes gpr[rd].
BaseHart_jalr(hart, raw) ==
    LET target == WrappingAdd(hart.gpr[rs1(raw)], as_u64(i_imm(raw)), 64) \ {0}
        h == SetGpr(Read(hart, rs1(raw)), rd(raw), hart.next)
    IN IF target \cap {0, 1} = {}
       THEN [h EXCEPT !.next = target]
       ELSE raise(h, Exception("InstructionAddressMisaligned", target))

BaseHart_branch(hart, raw, condition) ==
    LET target == WrappingAdd(hart.pc, as_u64(b_imm(raw)), 64)
    IN IF condition
       THEN IF target \cap {0, 1} = {}
            THEN [hart EXCEPT !.next = target]
            ELSE raise(hart, Exception("InstructionAddressMisaligned", target))
       ELSE hart

BaseHart_l(hart, raw, w, convert) ==
    LET h == Read(hart, rs1(raw))
        address == WrappingAdd(hart.gpr[rs1(raw)], as_u64(i_imm(raw)), 64)
        r == BaseHart_bus_load(hart, address, w)
    IN IF r.ok THEN SetGpr(h, rd(raw), call_once(convert, r.value))
       ELSE IF r.err = "AccessFault" THEN raise(h, Exception("LoadAccessFault", address))
       ELSE raise(h, Exception("LoadAddressMisaligned", address))

BaseHart_s(hart, raw, w) ==
    LET h == Read2(hart, raw)
        address == WrappingAdd(hart.gpr[rs1(raw)], as_u64(s_imm(raw)), 64)
        value == Trunc(hart.gpr[rs2(raw)], 8 * w)
        r == BaseHart_bus_store(hart, address, value, w)
    IN IF r.ok THEN [h EXCEPT !.bus = r.data]
       ELSE IF r.err = "AccessFault" THEN raise(h, Exception("StoreAmoAccessFault", address))
       ELSE raise(h, Exception("StoreAmoAccessFault", address))

BaseHart_ecall_ebreak(hart, raw) ==
    IF 20 \notin raw
    THEN raise(hart, EnvironmentCall)
    ELSE raise(hart, [kind |-> "Breakpoint", address |-> {}])

\* What `hart.csr.access(address, f)` returns.  The harness builds the hart
\* with `()` as its Csr: `impl Csr for ()` answers Err(CsrIllegal) to every
\* access.
CsrOutcomes == {[ok |-> FALSE]}

\* The six CSR handlers, which differ only in the closure they pass to
\* access(): `match result { Ok(value) => gpr[rd] = value, Err(CsrIllegal) =>
\* raise(IllegalInstruction) }`.
BaseHart_csr(hart, raw, result) ==
    LET h == IF 14 \notin raw THEN Read(hart, rs1(raw)) ELSE hart
    IN IF result.ok
       THEN SetGpr(h, rd(raw), result.value)
       ELSE raise(h, Exception("IllegalInstruction", raw))

\* The keys whose handlers have the same text in both crates.
SameHandler ==
    {op + 128 * f3 : op \in {\b0110111, \b0010111, \b0010011, \b0110011}, f3 \in 0..7}
        \cup {op + 128 * f3 : op \in {\b0011011, \b0111011}, f3 \in {0, 1, 5}}
        \cup {\b0000001111}

\* The match of BaseHart::execute.
BaseHart_instruction(funct3_opcode, hart, raw, access) ==
    LET a == hart.gpr[rs1(raw)]
        b == hart.gpr[rs2(raw)]
    IN CASE funct3_opcode % 128 = \b1101111 -> BaseHart_jal(hart, raw)
         [] funct3_opcode = \b0001100111 -> BaseHart_jalr(hart, raw)
         [] funct3_opcode = \b0001100011 -> BaseHart_branch(Read2(hart, raw), raw, a = b)
         [] funct3_opcode = \b0011100011 -> BaseHart_branch(Read2(hart, raw), raw, a /= b)
         [] funct3_opcode = \b1001100011 ->
              BaseHart_branch(Read2(hart, raw), raw, Lts(a, b, 64))
         [] funct3_opcode = \b1011100011 ->
              BaseHart_branch(Read2(hart, raw), raw, ~Lts(a, b, 64))
         [] funct3_opcode = \b1101100011 -> BaseHart_branch(Read2(hart, raw), raw, Ltu(a, b))
         [] funct3_opcode = \b1111100011 -> BaseHart_branch(Read2(hart, raw), raw, ~Ltu(a, b))
         [] funct3_opcode = \b0000000011 -> BaseHart_l(hart, raw, 1, FnOnce("sign_extend", 8))
         [] funct3_opcode = \b0010000011 -> BaseHart_l(hart, raw, 2, FnOnce("sign_extend", 16))
         [] funct3_opcode = \b0100000011 -> BaseHart_l(hart, raw, 4, FnOnce("sign_extend", 32))
         [] funct3_opcode = \b0110000011 -> BaseHart_l(hart, raw, 8, FnOnce("identity", {}))
         [] funct3_opcode = \b1000000011 -> BaseHart_l(hart, raw, 1, FnOnce("identity", {}))
         [] funct3_opcode = \b1010000011 -> BaseHart_l(hart, raw, 2, FnOnce("identity", {}))
         [] funct3_opcode = \b1100000011 -> BaseHart_l(hart, raw, 4, FnOnce("identity", {}))
         [] funct3_opcode = \b0000100011 -> BaseHart_s(hart, raw, 1)
         [] funct3_opcode = \b0010100011 -> BaseHart_s(hart, raw, 2)
         [] funct3_opcode = \b0100100011 -> BaseHart_s(hart, raw, 4)
         [] funct3_opcode = \b0110100011 -> BaseHart_s(hart, raw, 8)
         [] funct3_opcode = \b0001110011 -> BaseHart_ecall_ebreak(hart, raw)
         [] funct3_opcode % 128 = \b1110011 /\ funct3_opcode \div 128 \in {1, 2, 3, 5, 6, 7} ->
              BaseHart_csr(hart, raw, access)
         [] funct3_opcode \in SameHandler -> instruction(funct3_opcode, hart, raw)
         [] OTHER -> raise(hart, Exception("IllegalInstruction", raw))

\* A variant of BaseHart::execute that returns the latch without clearing it.
BaseHart_execute_keeps_latch(hart, access) ==
    The({ IF ~r.ok
          THEN [hart |-> hart,
                returned |-> Err(Exception(IF r.err = "AccessFault"
                                           THEN "InstructionAccessFault"
                                           ELSE "InstructionAddressMisaligned", hart.pc))]
          ELSE The({ [hart |-> [done EXCEPT !.pc = done.next], returned |-> done.result]
                     : done \in { BaseHart_instruction(funct3_opcode, h, r.value, access)
                                  : funct3_opcode \in {key(r.value)},
                                    h \in {[hart EXCEPT
                                              !.gpr[0] = {},
                                              !.next = WrappingAdd(hart.pc, FromNat(4), 64)]} } })
          : r \in {BaseHart_bus_load(hart, hart.pc, 4)} })

\* A variant of BaseHart::execute that commits pc <- next only when the
\* instruction raised nothing.
BaseHart_execute_commits_on_ok(hart, access) ==
    The({ IF ~r.ok
          THEN [hart |-> hart,
                returned |-> Err(Exception(IF r.err = "AccessFault"
                                           THEN "InstructionAccessFault"
                                           ELSE "InstructionAddressMisaligned", hart.pc))]
          ELSE The({ [hart |-> [done EXCEPT !.pc = IF done.result.ok THEN done.next ELSE @,
                                            !.result = Ok],
                      returned |-> done.result]
                     : done \in { BaseHart_instruction(funct3_opcode, h, r.value, access)
                                  : funct3_opcode \in {key(r.value)},
                                    h \in {[hart EXCEPT
                                              !.gpr[0] = {},
                                              !.next = WrappingAdd(hart.pc, FromNat(4), 64)]} } })
          : r \in {BaseHart_bus_load(hart, hart.pc, 4)} })

\* BaseHart::execute: the hart after the call and the value returned.  A
\* failed fetch returns at once; otherwise the latch is swapped with Ok(()).
BaseHart_execute(hart, access) ==
    The({ IF ~r.ok
          THEN [hart |-> hart,
                returned |-> Err(Exception(IF r.err = "AccessFault"
                                           THEN "InstructionAccessFault"
                                           ELSE "InstructionAddressMisaligned", hart.pc))]
          ELSE The({ [hart |-> [done EXCEPT !.pc = done.next, !.result = Ok],
                      returned |-> done.result]
                     : done \in { BaseHart_instruction(funct3_opcode, h, r.value, access)
                                  : funct3_opcode \in {key(r.value)},
                                    h \in {[hart EXCEPT
                                              !.gpr[0] = {},
                                              !.next = WrappingAdd(hart.pc, FromNat(4), 64)]} } })
          : r \in {BaseHart_bus_load(hart, hart.pc, 4)} })

\* A variant of the harness's match that does not look at gpr[10].
match_execute_ignores_a0(returned, x) ==
    IF returned.ok THEN "running"
    ELSE IF returned.err = EnvironmentCall
    THEN IF x[17] /= FromNat(93) THEN "panicked" ELSE "passed"
    ELSE "panicked"

\* `match hart.execute() { .. }` of test_riscv_test: the loop goes on, the
\* test passes (break), or the test panics.
match_execute(returned, x) ==
    IF returned.ok THEN "running"
    ELSE IF returned.err = EnvironmentCall
    THEN IF x[17] /= FromNat(93) \/ x[10] /= {} THEN "panicked" ELSE "passed"
    ELSE "panicked"

\* ------------------------------------------------ src/irv-loader/src/lib.rs

\* ProgramHeader::file_range and ::vm_range, as load() uses them:
\* p_offset..p_offset + p_filesz, and p_vaddr..p_vaddr + p_memsz as u64s.
file_range(phdr) == [start |-> phdr.p_offset, end |-> phdr.p_offset + phdr.p_filesz]
vm_range(phdr) ==
    [start |-> phdr.p_vaddr, end |-> WrappingAdd(phdr.p_vaddr, FromNat(phdr.p_memsz), 64)]

\* The inner loop of load(), at byte n of `data = &elf_data[file_range]` with
\* vm_addr = vm_range.start + n: it stops at the end of data, at
\* vm_range.end, or with the error of the first store that fails.  st is
\* [bus, stores, result]; `stores` logs every bus.store() issued, with the
\* index k of its program header.
RECURSIVE load_segment(_, _, _, _, _, _)
load_segment(st, elf_data, phdr, k, n, vm_addr) ==
    IF n = file_range(phdr).end - file_range(phdr).start \/ vm_addr = vm_range(phdr).end
    THEN st
    ELSE The({ IF r.ok
               THEN load_segment([bus |-> r.data, stores |-> Append(st.stores, e),
                                  result |-> Ok],
                                 elf_data, phdr, k, n + 1, WrappingAdd(vm_addr, FromNat(1), 64))
               ELSE [bus |-> st.bus, stores |-> Append(st.stores, e), result |-> Err(r.err)]
               : e \in {[phdr |-> k, n |-> n, vm_addr |-> vm_addr,
                         byte |-> elf_data[file_range(phdr).start + n + 1]]},
                 r \in {TestBus_store(st.bus, vm_addr,
                                      elf_data[file_range(phdr).start + n + 1], 1)} })

\* irv_loader::load from program header k on: every program header in turn,
\* returning at the first error.
RECURSIVE load(_, _, _, _)
load(st, program_headers, elf_data, k) ==
    IF k > Len(program_headers) \/ ~st.result.ok
    THEN st
    ELSE The({ load(done, program_headers, elf_data, k + 1)
               : done \in {load_segment(st, elf_data, program_headers[k], k, 0,
                                        vm_range(program_headers[k]).start)} })

\* Hart::new: the CSR file of zeros.
Csr_new ==
    [status |-> {}, medeleg |-> {}, mideleg |-> {}, sie |-> {}, mie |-> {},
     stvec |-> {}, mtvec |-> {}, sscratch |-> {}, mscratch |-> {},
     sepc |-> {}, mepc |-> {}, scause |-> {}, mcause |-> {},
     stval |-> {}, mtval |-> {}, sip |-> {}, mip |-> {},
     mvendorid |-> {}, marchid |-> {}, mimpid |-> {}, mhartid |-> {}]

\* ------------------------------------------------------ program images
\* Instruction words are assembled from their fields (the inverse of the field
\* extractors); an image is a program at address 0 in zeroed memory.

Field(n, at) == Shl(FromNat(n), at, 32)

\* opcode | rd | funct3 | rs1 | imm[11:0]
EncI(opcode, f3, d, r1, imm) ==
    opcode \cup Field(d, 7) \cup Field(f3, 12) \cup Field(r1, 15)
        \cup Shl(Trunc(imm, 12), 20, 32)

\* A CSR instruction: the CSR address is the I-immediate, rs1/uimm the rs1 field.
EncCsr(f3, d, address, r1) == EncI(FromNat(\b1110011), f3, d, r1, FromNat(address))

\* opcode | rd | imm[20|10:1|11|19:12]
EncJ(d, imm) ==
    FromNat(\b1101111) \cup Field(d, 7)
        \cup (imm \cap (12..19))
        \cup Shl(Shr(imm, 11) \cap {0}, 20, 32)
        \cup Shl(Shr(imm, 1) \cap (0..9), 21, 32)
        \cup Shl(Shr(imm, 20) \cap {0}, 31, 32)

\* opcode | imm[11] | imm[4:1] | funct3 | rs1 | rs2 | imm[10:5] | imm[12]
EncB(f3, r1, r2, imm) ==
    FromNat(\b1100011) \cup Field(f3, 12) \cup Field(r1, 15) \cup Field(r2, 20)
        \cup Shl(Shr(imm, 11) \cap {0}, 7, 32)
        \cup Shl(Shr(imm, 1) \cap (0..3), 8, 32)
        \cup Shl(Shr(imm, 5) \cap (0..5), 25, 32)
        \cup Shl(Shr(imm, 12) \cap {0}, 31, 32)

\* opcode | imm[4:0] | funct3 | rs1 | rs2 | imm[11:5]
EncS(f3, r1, r2, imm) ==
    FromNat(\b0100011) \cup Field(f3, 12) \cup Field(r1, 15) \cup Field(r2, 20)
        \cup Shl(imm \cap (0..4), 7, 32)
        \cup Shl(Shr(imm, 5) \cap (0..6), 25, 32)

LOAD(f3, d, r1, n) == EncI(FromNat(\b0000011), f3, d, r1, FromNat(n))
STORE(f3, r2, r1, n) == EncS(f3, r1, r2, FromNat(n))
ADDI(d, r1, n) == EncI(FromNat(\b0010011), 0, d, r1, FromNat(n))
JALR(d, r1, n) == EncI(FromNat(\b1100111), 0, d, r1, FromNat(n))
LB(d, r1, n) == EncI(FromNat(\b0000011), 0, d, r1, FromNat(n))
JAL(d, n) == EncJ(d, FromNat(n))
BEQ(r1, r2, n) == EncB(0, r1, r2, FromNat(n))
BNE(r1, r2, n) == EncB(1, r1, r2, FromNat(n))
CSRRW(d, address, r1) == EncCsr(1, d, address, r1)
CSRRS(d, address, r1) == EncCsr(2, d, address, r1)
CSRRC(d, address, r1) == EncCsr(3, d, address, r1)
CSRRWI(d, address, n) == EncCsr(5, d, address, n)
CSRRSI(d, address, n) == EncCsr(6, d, address, n)
CSRRCI(d, address, n) == EncCsr(7, d, address, n)

\* fence iorw, iorw (0x0FF0000F) and fence.i (0x0000100F)
FENCE == {0, 1, 2, 3} \cup (20..27)
FENCE_I == {0, 1, 2, 3, 12}

\* ecall (0x00000073), ebreak (0x00100073), mret (0x30200073), wfi (0x10500073)
ECALL == {0, 1, 4, 5, 6}
EBREAK == {0, 1, 4, 5, 6, 20}
MRET == {0, 1, 4, 5, 6, 21, 28, 29}
WFI == {0, 1, 4, 5, 6, 20, 22, 28}

\* opcode | rd | funct3 | rs1 | rs2 | funct7
EncR(opcode, f3, f7, d, r1, r2) ==
    opcode \cup Field(d, 7) \cup Field(f3, 12) \cup Field(r1, 15) \cup Field(r2, 20)
        \cup Field(f7, 25)

ADDIW(d, r1, n) == EncI(FromNat(\b0011011), 0, d, r1, FromNat(n))
SLLIW(d, r1, n) == EncR(FromNat(\b0011011), 1, 0, d, r1, n)
SRLIW(d, r1, n) == EncR(FromNat(\b0011011), 5, 0, d, r1, n)
SRAIW(d, r1, n) == EncR(FromNat(\b0011011), 5, 32, d, r1, n)
ADDW(d, r1, r2) == EncR(FromNat(\b0111011), 0, 0, d, r1, r2)
SUBW(d, r1, r2) == EncR(FromNat(\b0111011), 0, 32, d, r1, r2)
SLLW(d, r1, r2) == EncR(FromNat(\b0111011), 1, 0, d, r1, r2)
SRLW(d, r1, r2) == EncR(FromNat(\b0111011), 5, 0, d, r1, r2)
SRAW(d, r1, r2) == EncR(FromNat(\b0111011), 5, 32, d, r1, r2)

\* Instructions that set up register and CSR state for the ones after them.
Setup ==
    { ADDI(5, 0, \h55), ADDI(0, 0, 5), ADDI(1, 0, 6),
      CSRRWI(0, MTVEC, 7), CSRRWI(0, MTVEC, 8), CSRRWI(0, MEDELEG, 5) }

\* The instructions a program may end with.
Pool ==
    Setup \cup
    { JALR(0, 0, 8), JALR(1, 1, 4), JALR(1, 0, 2),
      JAL(1, 2), JAL(0, 8), BEQ(0, 0, 2), BEQ(0, 0, 8), BNE(0, 0, 2), BNE(1, 0, 6),
      LB(0, 0, 0), LB(1, 0, 0),
      CSRRW(5, MSCRATCH, 5), CSRRS(1, MSCRATCH, 5), CSRRC(5, MTVEC, 1),
      CSRRW(0, MVENDORID, 1), CSRRW(5, MARCHID, 1), CSRRS(1, MVENDORID, 0), CSRRS(1, MARCHID, 5),
      CSRRC(5, MIMPID, 0), CSRRC(1, MHARTID, 1),
      CSRRWI(1, MHARTID, 0), CSRRSI(1, MHARTID, 0), CSRRSI(1, MVENDORID, 1),
      CSRRCI(5, MARCHID, 0), CSRRCI(1, MIMPID, 3),
      CSRRW(1, \h301, 5), CSRRS(1, \h303, 0), CSRRSI(1, \h7FF, 1), CSRRWI(1, \h303, 31),
      CSRRS(1, SSTATUS, 0), CSRRW(1, SSCRATCH, 5), CSRRCI(1, STVEC, 0),
      CSRRWI(1, MSTATUS, 10), CSRRSI(1, MSTATUS, 8), CSRRCI(5, MSTATUS, 2),
      CSRRWI(1, SSTATUS, 10), CSRRWI(0, MSCRATCH, 0),
      CSRRWI(1, STVEC, 7), CSRRWI(0, STVEC, 8), JAL(0, 64),
      LOAD(0, 1, 0, 64), LOAD(1, 1, 0, 0), LOAD(1, 1, 0, 1), LOAD(2, 1, 0, 0),
      LOAD(2, 1, 0, 2), LOAD(3, 1, 0, 0), LOAD(3, 0, 0, 4), LOAD(4, 1, 0, 0),
      LOAD(5, 1, 0, 0), LOAD(5, 1, 0, 1), LOAD(6, 1, 0, 0), LOAD(6, 1, 0, 64),
      STORE(0, 5, 0, 9), STORE(0, 5, 0, 64), STORE(1, 5, 0, 1), STORE(1, 5, 0, 8),
      STORE(2, 5, 0, 8), STORE(2, 1, 0, 6), STORE(3, 5, 0, 8), STORE(3, 5, 0, 4),
      FENCE, FENCE_I, ECALL, EBREAK, MRET, WFI }

\* The programs: at most ProgLen instructions, all but the last from Setup.
RECURSIVE Prefixes(_)
Prefixes(n) ==
    IF n = 0 THEN {<<>>}
    ELSE Prefixes(n - 1) \cup {Append(p, i) : p \in {q \in Prefixes(n - 1) : Len(q) = n - 1},
                                              i \in Setup}

Programs == {Append(p, i) : p \in Prefixes(ProgLen - 1), i \in Pool}

\* Scenario F of the test suite: mscratch = 0xAA, then CSRRW x5, mscratch, x5
\* with x5 = 0x55.
ScenarioF ==
    <<ADDI(5, 0, \hAA), CSRRW(0, MSCRATCH, 5), ADDI(5, 0, \h55), CSRRW(5, MSCRATCH, 5)>>

\* mscratch = 0x55, then CSRRW x1, mscratch, x0 and CSRRW x5, mscratch, x0
\* with x5 = 0x55; and the same on mtval.
ScenarioTwoCsrrw ==
    {<<ADDI(5, 0, \h55), CSRRW(0, address, 5), CSRRW(1, address, 0), CSRRW(5, address, 0)>> :
        address \in {MSCRATCH, MTVAL}}

\* Memory::new over MemDwords zeroed u64s with `program` stored at address 0.
Image(program) ==
    [a \in 0..(8 * MemDwords - 1) |->
        IF a \div 4 < Len(program)
        THEN {i - 8 * (a % 4) : i \in {j \in program[a \div 4 + 1] : j \div 8 = a % 4}}
        ELSE {}]

Images == {Image(p) : p \in Programs \cup {ScenarioF} \cup ScenarioTwoCsrrw}

\* ------------------------------------------------------- the state machine

\* `last` describes the execute() call that led to the current state: the
\* word fetched (fetched = FALSE on a fetch fault), the traps it raised, the
\* source registers it read and the hart before the call.  `instret` counts
\* the calls.
\* `result` is the latch of BaseHart and `harness` the position of the test
\* harness; a Hart has neither, and they keep their initial values.
VARIABLES privilege, bus, pc, next, gpr, csr, last, instret, result, harness

vars == <<privilege, bus, pc, next, gpr, csr, last, instret, result, harness>>

\* The hart as the handlers see it, with an empty log.
Hart ==
    [privilege |-> privilege, bus |-> bus, pc |-> pc, next |-> next,
     gpr |-> gpr, csr |-> csr, traps |-> <<>>, reads |-> {}]

NoStep == [fetched |-> FALSE, raw |-> {}, traps |-> <<>>, reads |-> {}]

\* Hart::new(bus)
New(image, priv) ==
    /\ privilege = priv
    /\ bus = image
    /\ pc = {}
    /\ next = {}
    /\ gpr = [i \in 0..31 |-> {}]
    /\ csr = Csr_new
    /\ last = NoStep
    /\ instret = 0
    /\ result = Ok
    /\ harness = "running"

Init == \E image \in Images : New(image, Machine)

\* One call of Hart::execute.
Execute ==
    /\ instret < MaxSteps
    /\ \E done \in {execute(Hart)}, r \in {fetch(Hart)} :
          /\ privilege' = done.privilege
          /\ bus' = done.bus
          /\ pc' = done.pc
          /\ next' = done.next
          /\ gpr' = done.gpr
          /\ csr' = done.csr
          /\ last' = [fetched |-> r.ok, raw |-> IF r.ok THEN r.value ELSE {},
                      traps |-> done.traps, reads |-> done.reads, old |-> Hart]
    /\ instret' = instret + 1
    /\ UNCHANGED <<result, harness>>

Next == Execute

Spec == Init /\ [][Next]_vars

\* The handlers as functions of the privilege level: the hart of Hart::new with
\* `privilege` set to any PrivilegeLevel.
InitPriv == \E image \in Images, priv \in PrivilegeLevel : New(image, priv)

SpecPriv == InitPriv /\ [][Next]_vars

\* ------------------------------------------------------------ properties

\* ------------------------------------- single instructions over operands

\* Values for x1 and x2: around the 16-, 32- and 64-bit boundaries, and shift
\* amounts of 32 and more.
Operands ==
    { {}, {0}, 0..15, 0..30, {31}, 0..31, 0..63, {0, 32}, {5}, {0, 5}, {2, 33, 63} }

\* The W-variant instructions, with x1 and x2 as sources.
WWords ==
    {ADDIW(3, 1, n) : n \in {1, \h7FF, \hFFF}}
        \cup {SLLIW(3, 1, n) : n \in {0, 1, 31}}
        \cup {SRLIW(3, 1, n) : n \in {0, 1, 31}}
        \cup {SRAIW(1, 1, n) : n \in {0, 1, 31}}
        \cup {ADDW(3, 1, 2), SUBW(3, 1, 2), SLLW(3, 1, 2), SRLW(1, 1, 2), SRAW(3, 1, 2)}

\* JALR with rd and rs1 different, equal, and x0.
JalrWords ==
    {JALR(3, 1, 0), JALR(1, 1, 4), JALR(2, 2, 0), JALR(0, 1, \hFFC), JALR(1, 0, 16),
     JALR(1, 2, 1)}

\* JAL with each immediate bit alone, and with mixed bits.
JalWords ==
    {JAL(1, Pow2(n)) : n \in 1..20}
        \cup {JAL(0, n) : n \in {0, \h1000, \hFF000, \h101000, \h1FFFFE, \h0FF7FC, \h100804}}

\* One word for every value of the key, with the other 22 bits clear, naming
\* x3/x1/x2, or all set.
KeyFills == { {}, {7, 8, 15, 21}, (7..11) \cup (15..31) }
KeyWords ==
    {FromNat(k % 128) \cup Field(k \div 128, 12) \cup fill : k \in 0..1023, fill \in KeyFills}

\* Loads of every width of the first operand, at its address and one byte
\* above, with rd = x3 and rd = rs1; and stores of every width over it.
AccessWords ==
    {LOAD(f3, 3, 0, n) : f3 \in 0..6, n \in {16, 17}}
        \cup {LOAD(f3, 2, 2, 0) : f3 \in 0..6}
        \cup {STORE(f3, 2, 0, 16) : f3 \in 0..3}

OpCases ==
    {[raw |-> w, a |-> a, b |-> b] : w \in WWords \cup JalrWords, a \in Operands, b \in Operands}
        \cup {[raw |-> w, a |-> 0..31, b |-> {2, 33, 63}] : w \in JalWords \cup KeyWords}
        \cup {[raw |-> w, a |-> a, b |-> b]
                : w \in AccessWords, a \in Operands, b \in {FromNat(16), {2, 33, 63}}}

Byte(word, k) == {i - 8 * k : i \in {j \in word : j \div 8 = k}}

\* Memory::new over MemDwords + 1 u64s: LD x1, 16(x0); LD x2, 24(x0); the
\* instruction under test; and the two operands as data at 16 and 24.
OpsImage(raw, a, b) ==
    [n \in 0..(8 * MemDwords + 7) |->
        CASE n \in 0..3 -> Byte(LOAD(3, 1, 0, 16), n)
          [] n \in 4..7 -> Byte(LOAD(3, 2, 0, 24), n - 4)
          [] n \in 8..11 -> Byte(raw, n - 8)
          [] n \in 16..23 -> Byte(a, n - 16)
          [] n \in 24..31 -> Byte(b, n - 24)
          [] OTHER -> {}]

InitOps == \E t \in OpCases : New(OpsImage(t.raw, t.a, t.b), Machine)

SpecOps == InitOps /\ [][Next]_vars

\* ------------------------------------------------ BaseHart and its harness

\* const MAX_INSTRET: usize = 1000, scaled down.
MAX_INSTRET == 2

\* The test programs: li a7, 93 and li a0, 1 in any order, then one
\* instruction that ends the test, loops, or raises an exception; and two
\* programs that go on after an exception.
TestSetup == {ADDI(17, 0, 93), ADDI(10, 0, 1)}

TestPool ==
    TestSetup \cup
    {ECALL, EBREAK, JAL(0, 0), JAL(0, 2), BEQ(0, 0, 2), LOAD(3, 1, 0, 1), LOAD(1, 1, 17, 0),
     STORE(0, 17, 0, 9), CSRRSI(10, MSCRATCH, 1), FENCE_I, JAL(0, 64)}

RECURSIVE TestPrefixes(_)
TestPrefixes(n) ==
    IF n = 0 THEN {<<>>}
    ELSE TestPrefixes(n - 1)
             \cup {Append(p, i) : p \in {q \in TestPrefixes(n - 1) : Len(q) = n - 1},
                                  i \in TestSetup}

TestPrograms ==
    {Append(p, i) : p \in TestPrefixes(MAX_INSTRET + 1), i \in TestPool}
        \cup {<<EBREAK, ADDI(17, 0, 93), ECALL>>, <<LOAD(3, 1, 0, 1), ADDI(10, 0, 1)>>}

\* The hart as BaseHart's handlers see it, with empty logs.
BaseHart ==
    [B |-> "TestBus", bus |-> bus, pc |-> pc, next |-> next, gpr |-> gpr, csr |-> csr,
     result |-> result, raised |-> <<>>, reads |-> {}]

\* test_riscv_test up to its loop: the ELF image copied to TEST_BUS_BASE,
\* BaseHart::new(bus, ()), and pc = next = TEST_BUS_BASE.
InitTest ==
    /\ \E program \in TestPrograms : bus = Image(program)
    /\ privilege = Machine
    /\ pc = TEST_BUS_BASE
    /\ next = TEST_BUS_BASE
    /\ gpr = [i \in 0..31 |-> {}]
    /\ csr = <<>>
    /\ result = Ok
    /\ harness = "running"
    /\ instret = 0
    /\ last = [fetched |-> FALSE, raw |-> {}, raised |-> <<>>, reads |-> {},
               returned |-> Ok, before |-> Ok]

\* The effect of one call of BaseHart::execute on the hart, with its log.
Called(done) ==
    /\ bus' = done.hart.bus
    /\ pc' = done.hart.pc
    /\ next' = done.hart.next
    /\ gpr' = done.hart.gpr
    /\ result' = done.hart.result
    /\ \E r \in {TestBus_load(bus, pc, 4)} :
          last' = [fetched |-> r.ok, raw |-> IF r.ok THEN r.value ELSE {},
                   raised |-> done.hart.raised, reads |-> done.hart.reads,
                   returned |-> done.returned, before |-> last.returned, old |-> BaseHart]
    /\ UNCHANGED <<privilege, csr>>

\* One call of BaseHart::execute, whatever the calls before it returned.
BaseExecute ==
    /\ instret < MaxSteps
    /\ \E access \in CsrOutcomes : Called(BaseHart_execute(BaseHart, access))
    /\ instret' = instret + 1
    /\ UNCHANGED harness

NextBase == BaseExecute

SpecBase == InitTest /\ [][NextBase]_vars

\* One iteration of the loop of test_riscv_test: the budget check, one
\* execute() and the match on what it returned.
Iterate ==
    /\ harness = "running"
    /\ IF instret > MAX_INSTRET
       THEN /\ harness' = "panicked"
            /\ UNCHANGED <<privilege, bus, pc, next, gpr, csr, last, instret, result>>
       ELSE \E access \in CsrOutcomes :
              \E done \in {BaseHart_execute(BaseHart, access)} :
                /\ Called(done)
                /\ harness' = match_execute(done.returned, done.hart.gpr)
                /\ instret' = IF done.returned.ok THEN instret + 1 ELSE instret

NextTest == Iterate

\* The harness runs on its own thread until it returns or panics: every
\* iteration that can be taken is taken.
SpecTest == InitTest /\ [][NextTest]_vars /\ WF_vars(NextTest)

\* ------------------------------------------------ the Memory bus on its own

\* The number of bus accesses made on the Memory.
MaxAccesses == 1

\* Addresses around both ends of the buffer and around the wrap of u64.
BusAddresses ==
    {FromNat(n) : n \in {0, 1, 2, 3, 4, 6, 7, 8}}
        \cup {FromNat(8 * MemDwords + n - 8) : n \in 0..9}
        \cup {0..63, 1..63, 2..63, 3..63, {63}, {32}, {0, 63}}

\* size_of::<T>() of the four impl_bus! instances.
Widths == {1, 2, 4, 8}

StoreValues == {0..63, {0, 2, 5, 7, 9, 16, 33, 63}}

\* A Memory over a buffer that holds a program.
InitBus == New(Image(ScenarioF), Machine)

\* bus.load::<T>(address)
Load(address, w) ==
    /\ instret < MaxAccesses
    /\ last' = [op |-> "load", address |-> address, w |-> w,
                result |-> Bus_load(bus, address, w)]
    /\ instret' = instret + 1
    /\ UNCHANGED <<privilege, bus, pc, next, gpr, csr, result, harness>>

\* bus.store::<T>(address, value)
Store(address, value, w) ==
    /\ instret < MaxAccesses
    /\ \E r \in {Bus_store(bus, address, Trunc(value, 8 * w), w)} :
          /\ last' = [op |-> "store", address |-> address, w |-> w, result |-> r]
          /\ bus' = IF r.ok THEN r.data ELSE bus
    /\ instret' = instret + 1
    /\ UNCHANGED <<privilege, pc, next, gpr, csr, result, harness>>

NextBus ==
    \E address \in BusAddresses, w \in Widths :
        \/ Load(address, w)
        \/ \E value \in StoreValues : Store(address, value, w)

SpecBus == InitBus /\ [][NextBus]_vars

\* ------------------------------------- both harts over the same programs

\* auipc rd, n
AUIPC(d, n) == FromNat(\b0010111) \cup Field(d, 7) \cup Shl(FromNat(n), 12, 32)

\* Loads and stores of every width at every offset of a doubleword and far
\* off; jumps and taken or untaken branches to targets with every value of
\* the low two bits and far off; and the instructions that only raise.
HartWords ==
    {LOAD(f3, 3, 1, n) : f3 \in 0..6, n \in (0..8) \cup {64}}
        \cup {STORE(f3, 2, 1, n) : f3 \in 0..3, n \in {0, 1, 2, 4, 16, 64}}
        \cup {JALR(3, 1, n) : n \in {0, 1, 2, 3, 4, 64}}
        \cup {JAL(3, n) : n \in {2, 4, 6, 64}}
        \cup {EncB(f3, r[1], r[2], FromNat(n))
                : f3 \in {0, 1, 4, 5, 6, 7}, r \in {<<0, 0>>, <<0, 2>>, <<2, 0>>}, n \in {2, 4, 6}}
        \cup {ECALL, EBREAK, FENCE_I}

\* x1 = pc of the program, x2 = 1, then the instruction.
HartPrograms == {<<AUIPC(1, 0), ADDI(2, 0, 1), w>> : w \in HartWords}

\* Hart::new over a Memory holding the program; or BaseHart::new over a
\* TestBus holding it, with pc = next = TEST_BUS_BASE.
InitHarts ==
    \E program \in HartPrograms :
        \/ New(Image(program), Machine)
        \/ /\ bus = Image(program)
           /\ privilege = Machine
           /\ pc = TEST_BUS_BASE
           /\ next = TEST_BUS_BASE
           /\ gpr = [i \in 0..31 |-> {}]
           /\ csr = <<>>
           /\ result = Ok
           /\ harness = "running"
           /\ instret = 0
           /\ last = [fetched |-> FALSE, raw |-> {}, raised |-> <<>>, reads |-> {},
                      returned |-> Ok, before |-> Ok]

\* The hart of the run is a BaseHart, whose Csr is `()`, or a Hart.
IsBaseHart == csr = <<>>

NextHarts ==
    \/ ~IsBaseHart /\ Execute
    \/ IsBaseHart /\ BaseExecute

SpecHarts == InitHarts /\ [][NextHarts]_vars

\* ------------------------------------------------ the loader on the TestBus

\* The bytes of the ELF file that program headers refer to.
ElfData == <<{0}, {1}, {0, 1}, {2}>>

\* Program headers: of type PT_LOAD or not, with file ranges inside the file,
\* p_memsz below, at and above p_filesz, and addresses at the start of the
\* TestBus, at its last byte, and below TEST_BUS_BASE.
ProgramHeaders ==
    [p_type : {"PT_LOAD", "PT_NOTE"}, p_offset : {0, 2}, p_filesz : 0..2,
     p_vaddr : {TEST_BUS_BASE, TEST_BUS_BASE \cup {1},
                WrappingAdd(TEST_BUS_BASE, FromNat(8 * MemDwords - 1), 64), {}},
     p_memsz : 0..3]

\* The ELF files: one or two program headers.
Elfs ==
    {<<h>> : h \in ProgramHeaders}
        \cup {<<h, g>> : h \in ProgramHeaders,
                         g \in {f \in ProgramHeaders : f.p_offset = 2 /\ f.p_memsz = 2}}

\* test_riscv_test before load(): a zeroed Memory behind the TestBus.
InitLoad ==
    /\ bus = Image(<<>>)
    /\ privilege = Machine
    /\ pc = {}
    /\ next = {}
    /\ gpr = [i \in 0..31 |-> {}]
    /\ csr = <<>>
    /\ result = Ok
    /\ harness = "running"
    /\ instret = 0
    /\ \E elf \in Elfs :
          last = [program_headers |-> elf, elf_data |-> ElfData, loaded |-> FALSE,
                  stores |-> <<>>, returned |-> Ok]

\* irv_loader::load(&bus, &elf_data)
LoaderLoad ==
    /\ ~last.loaded
    /\ \E done \in {load([bus |-> bus, stores |-> <<>>, result |-> Ok],
                          last.program_headers, last.elf_data, 1)} :
          /\ bus' = done.bus
          /\ last' = [last EXCEPT !.loaded = TRUE, !.stores = done.stores,
                                  !.returned = done.result]
    /\ UNCHANGED <<privilege, pc, next, gpr, csr, result, harness, instret>>

NextLoad == LoaderLoad

SpecLoad == InitLoad /\ [][NextLoad]_vars

\* ------------------------------------------------------------- properties

\* The step that led here fetched an instruction that reached a handler.
Fetched == last.fetched

LastKey == key(last.raw)

\* The step executed one of the six Zicsr instructions; which one is funct3.
IsCsrStep == Fetched /\ LastKey % 128 = \b1110011 /\ LastKey \div 128 \in {1, 2, 3, 5, 6, 7}
LastFunct3 == LastKey \div 128
LastCsr == csr_index(last.raw)
LastRd == rd(last.raw)

\* The step raised exactly the trap (cause, value).
Raised(cause, value) == last.traps = <<[cause |-> cause, value |-> value]>>

\* The field of the CSR file an implemented address names.
Implemented ==
    {SSTATUS, MSTATUS, MEDELEG, SIE, MIE, STVEC, MTVEC, SSCRATCH, MSCRATCH, SEPC,
     MEPC, SCAUSE, MCAUSE, STVAL, MTVAL, SIP, MIP, MVENDORID, MARCHID, MIMPID, MHARTID}

FieldOf(address) ==
    CASE address \in {SSTATUS, MSTATUS} -> "status"
      [] address = MEDELEG -> "medeleg"
      [] address = SIE -> "sie"
      [] address = MIE -> "mie"
      [] address = STVEC -> "stvec"
      [] address = MTVEC -> "mtvec"
      [] address = SSCRATCH -> "sscratch"
      [] address = MSCRATCH -> "mscratch"
      [] address = SEPC -> "sepc"
      [] address = MEPC -> "mepc"
      [] address = SCAUSE -> "scause"
      [] address = MCAUSE -> "mcause"
      [] address = STVAL -> "stval"
      [] address = MTVAL -> "mtval"
      [] address = SIP -> "sip"
      [] address = MIP -> "mip"
      [] address = MVENDORID -> "mvendorid"
      [] address = MARCHID -> "marchid"
      [] address = MIMPID -> "mimpid"
      [] address = MHARTID -> "mhartid"

\* The source operand of the CSR instruction of the last step: uimm for the
\* immediate forms, the pre-instruction gpr[rs1] (x0 reading as 0) otherwise.
LastOperand ==
    IF LastFunct3 >= 5 THEN uimm(last.raw)
    ELSE IF rs1(last.raw) = 0 THEN {} ELSE last.old.gpr[rs1(last.raw)]

\* The value the instruction asks to write, given the CSR's value v.
LastWrite(v) ==
    CASE LastFunct3 \in {1, 5} -> LastOperand
      [] LastFunct3 \in {2, 6} -> v \cup LastOperand
      [] LastFunct3 \in {3, 7} -> v \ LastOperand

\* The "would write" condition of the CSR instruction of the last step.
WouldWrite ==
    \/ LastFunct3 \in {1, 5}
    \/ LastFunct3 \in {2, 3} /\ rs1(last.raw) /= 0
    \/ LastFunct3 \in {6, 7} /\ uimm(last.raw) /= {}

\* The cause/epc/tval registers of the mode that handled the trap of the last
\* step: trap() leaves privilege at the handling mode.
TrapRegs ==
    IF privilege = Supervisor THEN {"scause", "sepc", "stval"}
    ELSE {"mcause", "mepc", "mtval"}

\* No CSR outside `fields` changed in the last step.
CsrUnchangedExcept(fields) ==
    \A f \in (DOMAIN csr) \ fields : csr[f] = last.old.csr[f]

\* C1: gpr[0] == 0 immediately after every execute(), fetch fault or not.
C1_X0ZeroAfterExecute == instret > 0 => gpr[0] = {}

\* C2: every read of x0 as a source operand (rs1 or rs2) by a handler observes 0.
C2_X0ReadsZero == \A r \in last.reads : r[1] = 0 => r[2] = {}

\* The control transfer of the last step: the target its handler computed from
\* the operands it read, and whether the transfer is taken.
IsJal == Fetched /\ LastKey % 128 = \b1101111
IsJalr == Fetched /\ LastKey = \b0001100111
IsBranch == Fetched /\ LastKey % 128 = \b1100011 /\ LastKey \div 128 \in {0, 1, 4, 5, 6, 7}
ReadValue(i) == (CHOOSE r \in last.reads : r[1] = i)[2]
LastTarget ==
    IF IsJal THEN WrappingAdd(last.old.pc, as_u64(j_imm(last.raw)), 64)
    ELSE IF IsJalr
    THEN WrappingAdd(ReadValue(rs1(last.raw)), as_u64(i_imm(last.raw)), 64) \ {0}
    ELSE WrappingAdd(last.old.pc, as_u64(b_imm(last.raw)), 64)
LastTaken ==
    LET a == ReadValue(rs1(last.raw))
        b == ReadValue(rs2(last.raw))
    IN CASE IsJal \/ IsJalr -> TRUE
         [] LastKey \div 128 = 0 -> a = b
         [] LastKey \div 128 = 1 -> a /= b
         [] LastKey \div 128 = 4 -> Lts(a, b, 64)
         [] LastKey \div 128 = 5 -> ~Lts(a, b, 64)
         [] LastKey \div 128 = 6 -> Ltu(a, b)
         [] LastKey \div 128 = 7 -> ~Ltu(a, b)
MisalignedTransfer ==
    (IsJal \/ IsJalr \/ IsBranch) /\ LastTaken /\ LastTarget \cap {0, 1} /= {}

\* C3: a JAL, JALR or taken branch whose target has target & 0b11 != 0 raises
\* InstructionAddressMisaligned with the target as trap value, and the target
\* is written neither to next nor to pc.
C3_MisalignedTargetNotCommitted ==
    MisalignedTransfer =>
        /\ Raised(InstructionAddressMisaligned, LastTarget)
        /\ next /= LastTarget
        /\ pc /= LastTarget

\* C3 witness: a taken branch to a misaligned target was executed.
C3_Witness == IsBranch /\ MisalignedTransfer

\* C4: over the Memory bus, from an aligned pc, pc always has its low two bits
\* zero: every value committed by pc <- next is 4-byte aligned.
C4_PcAligned == pc \cap {0, 1} = {}

\* C4 witness: a trap was committed to a handler address taken from a
\* non-zero mtvec.
C4_Witness ==
    /\ Fetched /\ last.traps /= <<>>
    /\ csr.mtvec /= {} /\ pc = Tvec_base(csr.mtvec) /\ pc /= last.old.pc

\* C5: a legal CSR instruction writes to gpr[rd] the value the CSR held before
\* the instruction (stated for rd /= x0 and the CSRs other than the status
\* word), and a scratch register receives the value computed from the
\* pre-instruction gpr[rs1], even when rd = rs1.
C5_CsrReturnsOriginalValue ==
    (IsCsrStep /\ last.traps = <<>> /\ LastRd /= 0 /\ FieldOf(LastCsr) /= "status") =>
        /\ gpr[LastRd] = last.old.csr[FieldOf(LastCsr)]
        /\ LastCsr \in {MSCRATCH, SSCRATCH} =>
              csr[FieldOf(LastCsr)] = LastWrite(last.old.csr[FieldOf(LastCsr)])

ReadOnlyWrite == IsCsrStep /\ (LastCsr \div 1024) % 4 = 3 /\ WouldWrite

\* C7 as stated: a would-write CSR instruction on a read-only CSR raises
\* IllegalInstruction and leaves every CSR and gpr[rd] unchanged.
C7_ReadOnlyWriteChangesNothing ==
    ReadOnlyWrite =>
        /\ Raised(IllegalInstruction, last.raw)
        /\ csr = last.old.csr
        /\ gpr[LastRd] = last.old.gpr[LastRd]

\* C7 amended: a would-write CSR instruction on a read-only CSR raises
\* IllegalInstruction, changes no CSR other than the cause/epc/tval registers of
\* the handling mode, and leaves gpr[rd] unchanged unless rd is x0, which the
\* step has reset to 0.
C7_ReadOnlyWriteIsIllegal ==
    ReadOnlyWrite =>
        /\ Raised(IllegalInstruction, last.raw)
        /\ CsrUnchangedExcept(TrapRegs)
        /\ \/ gpr[LastRd] = last.old.gpr[LastRd]
           \/ LastRd = 0 /\ gpr[0] = {}

\* C7 witness: a CSRRW to a read-only CSR with a non-zero gpr[rd] was executed.
C7_Witness == ReadOnlyWrite /\ LastFunct3 = 1 /\ gpr[LastRd] /= {}

\* A CSRRS/CSRRC with rs1 = x0 on an identifier CSR was executed in Machine mode.
IdentifierRead ==
    /\ IsCsrStep /\ LastFunct3 \in {2, 3} /\ rs1(last.raw) = 0
    /\ LastCsr \in {MVENDORID, MARCHID, MIMPID, MHARTID}
    /\ last.old.privilege = Machine

\* C8: in Machine mode, CSRRS/CSRRC with rs1 = x0 on mvendorid, marchid, mimpid
\* or mhartid raises no trap, writes the CSR's value to gpr[rd] and leaves the
\* CSR file unchanged.
C8_IdentifierReadIsLegal ==
    IdentifierRead =>
        /\ last.traps = <<>>
        /\ gpr[LastRd] = last.old.csr[FieldOf(LastCsr)]
        /\ csr = last.old.csr

\* C8 witness: such a read replaced a non-zero gpr[rd].
C8_Witness == IdentifierRead /\ last.old.gpr[LastRd] /= {} /\ LastRd /= 0

\* C9: a rejected CSR instruction raises IllegalInstruction with the full
\* instruction word as trap value (recorded in the handling mode's cause and
\* tval), and no CSR other than the trap registers changes.
C9_RejectedCsrIsPrecise ==
    (IsCsrStep /\ last.traps /= <<>>) =>
        /\ Raised(IllegalInstruction, last.raw)
        /\ CsrUnchangedExcept(TrapRegs)
        /\ \E r \in {<<"mcause", "mtval">>, <<"scause", "stval">>} :
              /\ r[1] \in TrapRegs
              /\ csr[r[1]] = IllegalInstruction
              /\ csr[r[2]] = last.raw

\* C9 witness: a CSR instruction on an unimplemented address, which passes the
\* privilege and read-only checks, was rejected.
C9_Witness ==
    /\ IsCsrStep /\ last.traps /= <<>> /\ LastCsr \notin Implemented
    /\ is_sufficient_privilege(LastCsr, last.old.privilege) /\ ~is_read_only(LastCsr)

\* C10: a legal CSR access at the mstatus address updates the status word
\* through the machine write mask and returns it unfiltered; one at the sstatus
\* address updates it through the supervisor write mask and returns it through
\* the supervisor read mask.
C10_StatusViews ==
    (IsCsrStep /\ last.traps = <<>> /\ LastCsr \in {MSTATUS, SSTATUS}) =>
        LET v0 == last.old.csr.status
            mask == IF LastCsr = MSTATUS THEN M_WRITE_MASK ELSE S_WRITE_MASK
            v1 == (v0 \ mask) \cup (LastWrite(v0) \cap mask)
        IN /\ csr.status = v1
           /\ LastRd /= 0 =>
                 IF LastCsr = MSTATUS THEN gpr[LastRd] \in {v0, v1}
                 ELSE gpr[LastRd] \in {v0 \cap S_READ_MASK, v1 \cap S_READ_MASK}

\* C11: bit 1 of mtvec and of stvec is 0 in every reachable state, so
\* Tvec::mode() is 0 or 1 whatever a CSR instruction tries to write.
C11_TvecModeBit ==
    /\ 1 \notin csr.mtvec /\ 1 \notin csr.stvec
    /\ Tvec_mode(csr.mtvec) \in {{}, {0}} /\ Tvec_mode(csr.stvec) \in {{}, {0}}

\* C11 witness: a CSR instruction that asked to set bit 1 of stvec succeeded.
C11_Witness ==
    /\ IsCsrStep /\ last.traps = <<>> /\ LastCsr = STVEC
    /\ 1 \in LastWrite(last.old.csr.stvec) /\ csr.stvec /= {}

\* C12: mvendorid, marchid, mimpid and mhartid keep the values Hart::new gave
\* them, through CSR instructions and traps.
C12_IdentifiersConstant ==
    \A f \in {"mvendorid", "marchid", "mimpid", "mhartid"} : csr[f] = Csr_new[f]

\* C12 witness: a CSR instruction asked to set bits of an identifier CSR and
\* trapped.
C12_Witness ==
    /\ ReadOnlyWrite /\ LastCsr \in {MVENDORID, MARCHID, MIMPID, MHARTID}
    /\ LastOperand /= {} /\ last.traps /= <<>> /\ csr.mtval /= {}

\* The trap of the last step, and the registers of the mode that handled it.
Trapped == last.traps /= <<>>
LastTrap == last.traps[1]
HandledBySupervisor == privilege = Supervisor
CauseReg == IF HandledBySupervisor THEN "scause" ELSE "mcause"
EpcReg == IF HandledBySupervisor THEN "sepc" ELSE "mepc"
TvalReg == IF HandledBySupervisor THEN "stval" ELSE "mtval"
SelectedTvec == IF HandledBySupervisor THEN csr.stvec ELSE csr.mtvec

\* C13: after a synchronous exception the handling mode's cause register holds
\* the exception code, its tval the trap value and its epc the pc of the
\* trapping instruction; for an interrupt cause the handlers save next in epc.
C13_TrapRegisters ==
    /\ (Trapped /\ ~is_interrupt(LastTrap.cause)) =>
          /\ csr[CauseReg] = LastTrap.cause
          /\ csr[TvalReg] = LastTrap.value
          /\ csr[EpcReg] = last.old.pc
    /\ \A code \in {1, 5, 7, 9, 11} :
          /\ handle_trap_machine(Hart, interrupt(code), {}).csr.mepc = next
          /\ handle_trap_supervisor(Hart, interrupt(code), {}).csr.sepc = next

\* C13 witness: a JAL at a non-zero pc trapped on its misaligned target and
\* the trap was handled in Supervisor mode.
C13_Witness ==
    /\ Trapped /\ IsJal /\ last.old.pc /= {} /\ HandledBySupervisor
    /\ LastTarget \notin {last.old.pc, WrappingAdd(last.old.pc, FromNat(4), 64)}

\* C14: when an instruction handler raises a trap and the selected tvec is in
\* direct mode, pc equals that tvec's base when execute() returns.
C14_TrapRedirectsPc ==
    (Fetched /\ Trapped /\ Tvec_mode(SelectedTvec) = {}) => pc = Tvec_base(SelectedTvec)

\* C14 witness: a handler's trap in Machine mode with mtvec in direct mode
\* moved pc to a base that is not the sequential successor.
C14_Witness ==
    /\ Fetched /\ Trapped /\ ~HandledBySupervisor /\ Tvec_mode(csr.mtvec) = {}
    /\ pc = Tvec_base(csr.mtvec) /\ pc /= WrappingAdd(last.old.pc, FromNat(4), 64)
    /\ last.old.pc /= {}

\* C15: a failed fetch records InstructionAccessFault or
\* InstructionAddressMisaligned with tval = epc = pc, and pc is the handler
\* address (the tvec base in direct mode) when execute() returns.
C15_FetchFaultRedirectsPc ==
    (instret > 0 /\ ~Fetched) =>
        /\ \/ Raised(InstructionAccessFault, last.old.pc)
           \/ Raised(InstructionAddressMisaligned, last.old.pc)
        /\ csr[TvalReg] = last.old.pc /\ csr[EpcReg] = last.old.pc
        /\ Tvec_mode(SelectedTvec) = {} => pc = Tvec_base(SelectedTvec)

C16_NotDelegated ==
    /\ Trapped /\ last.old.privilege = Supervisor /\ privilege = Machine
    /\ last.old.csr.medeleg /= {} /\ ToNat(LastTrap.cause) \notin last.old.csr.medeleg

\* The load or store of the last step: its effective address, computed from
\* the base register the handler read.
IsLoad == Fetched /\ LastKey % 128 = \b0000011 /\ LastFunct3 \in 0..6
IsStore == Fetched /\ LastKey % 128 = \b0100011 /\ LastFunct3 \in 0..3
LoadEa == WrappingAdd(ReadValue(rs1(last.raw)), as_u64(i_imm(last.raw)), 64)
StoreEa == WrappingAdd(ReadValue(rs1(last.raw)), as_u64(s_imm(last.raw)), 64)

\* The access width in bytes that the mnemonic names: B, H, W, D.
MnemonicWidth ==
    CASE LastFunct3 \in {0, 4} -> 1
      [] LastFunct3 \in {1, 5} -> 2
      [] LastFunct3 \in {2, 6} -> 4
      [] LastFunct3 = 3 -> 8

\* The width of the bus access the load handler issues: lhu and lwu are bound
\* to Bus<u64, u8>.
LoadBusWidth == IF LastFunct3 \in {5, 6} THEN 1 ELSE MnemonicWidth

\* gpr[i] as the handler of the last step found it: x0 has been reset to 0.
EntryGpr(i) == IF i = 0 THEN {} ELSE last.old.gpr[i]

\* C17: a step that raises a trap changes no memory byte, no GPR other than x0
\* (except that JAL/JALR have set gpr[rd] = pc + 4) and no CSR other than the
\* cause/epc/tval registers of the handling mode.
C17_TrapFrame ==
    Trapped =>
        /\ bus = last.old.bus
        /\ \A i \in 1..31 :
              \/ gpr[i] = last.old.gpr[i]
              \/ /\ IsJal \/ IsJalr
                 /\ i = LastRd
                 /\ gpr[i] = WrappingAdd(last.old.pc, FromNat(4), 64)
        /\ CsrUnchangedExcept(TrapRegs)

\* C17 witness: a JALR trapped on its misaligned target after it changed
\* gpr[rd].
C17_Witness ==
    Trapped /\ IsJalr /\ LastRd /= 0 /\ gpr[LastRd] /= last.old.gpr[LastRd]

\* C18: a load that completes leaves in gpr[rd] the value of the bus access of
\* the mnemonic's width at the effective address, sign-extended for LB/LH/LW
\* and zero-extended for LBU/LHU/LWU/LD.
C18_LoadWidths ==
    (IsLoad /\ ~Trapped /\ LastRd /= 0) =>
        LET r == Bus_load(last.old.bus, LoadEa, MnemonicWidth)
        IN /\ r.ok
           /\ gpr[LastRd] = IF LastFunct3 \in {0, 1, 2}
                             THEN SignExtend(r.value, 8 * MnemonicWidth)
                             ELSE r.value

C20_StoreFaults ==
    IsStore =>
        LET value == Trunc(ReadValue(rs2(last.raw)), 8 * MnemonicWidth)
            r == Bus_store(last.old.bus, StoreEa, value, MnemonicWidth)
        IN ~r.ok => Raised(StoreAmoAccessFault, StoreEa) /\ bus = last.old.bus

\* C20 witness: a misaligned store of a non-zero value inside the buffer
\* trapped.
C20_Witness ==
    /\ IsStore /\ Trapped /\ ReadValue(rs2(last.raw)) /= {}
    /\ calculate_destination(last.old.bus, StoreEa, MnemonicWidth)
          = [ok |-> FALSE, err |-> "AddressMisaligned"]

\* The last bus access, classified from its address and width alone.
OutOfBounds == last.address \cap (31..63) /= {} \/ ToNat(last.address) + last.w > size(bus)
Misaligned == ToNat(last.address \cap (0..2)) % last.w /= 0

IsFence == Fetched /\ LastKey % 128 = \b0001111 /\ LastFunct3 \in {0, 1}

\* C22: FENCE and FENCE.I raise no trap and change no GPR, CSR or memory; the
\* step only advances pc by 4.
C22_FenceIsNoOp ==
    IsFence =>
        /\ ~Trapped
        /\ \A i \in 0..31 : gpr[i] = EntryGpr(i)
        /\ csr = last.old.csr
        /\ bus = last.old.bus
        /\ privilege = last.old.privilege
        /\ pc = WrappingAdd(last.old.pc, {2}, 64)

IsEcallEbreak == Fetched /\ LastKey = \b0001110011

\* C24: an instruction dispatched to the ECALL/EBREAK handler with bit 20 clear
\* raises the environment call of the privilege it ran at (code 8 from U, 9
\* from S, 11 from M), with bit 20 set it raises Breakpoint (code 3); the trap
\* value is 0 in both cases.
C24_EcallEbreak ==
    IsEcallEbreak =>
        Raised(FromNat(IF 20 \in last.raw THEN 3 ELSE 8 + last.old.privilege), {})

\* C24 witness: an ECALL executed in supervisor mode raised cause 9, and an
\* instruction of the same key with bit 20 set is reachable as well.
C24_Witness ==
    /\ IsEcallEbreak /\ 20 \notin last.raw /\ last.old.privilege = Supervisor
    /\ Raised(FromNat(9), {})

\* The keys RV64I and Zicsr assign: opcode and the funct3 values it takes.
AssignedKeys ==
    {op + 128 * f3 : op \in {\b0110111, \b0010111, \b1101111, \b0010011, \b0110011},
                     f3 \in 0..7}
        \cup {\b1100111}
        \cup {\b1100011 + 128 * f3 : f3 \in {0, 1, 4, 5, 6, 7}}
        \cup {\b0000011 + 128 * f3 : f3 \in 0..6}
        \cup {\b0100011 + 128 * f3 : f3 \in 0..3}
        \cup {op + 128 * f3 : op \in {\b0011011, \b0111011}, f3 \in {0, 1, 5}}
        \cup {\b0001111 + 128 * f3 : f3 \in {0, 1}}
        \cup {\b1110011 + 128 * f3 : f3 \in {0, 1, 2, 3, 5, 6, 7}}

\* opcode[6:0] | funct3 << 7 of the word the last step fetched.
IsaKey == ToNat(last.raw \cap (0..6)) + 128 * ToNat({i - 12 : i \in last.raw \cap (12..14)})

\* C23: a word whose key is not assigned to an RV64I/Zicsr handler raises
\* exactly IllegalInstruction with the full word as trap value; no word makes
\* a step raise more than one trap, and every register index a step uses is
\* within 0..31.
C23_DecoderTotal ==
    /\ DOMAIN gpr = 0..31
    /\ Len(last.traps) <= 1
    /\ Fetched =>
          /\ {rd(last.raw), rs1(last.raw), rs2(last.raw)} \subseteq 0..31
          /\ \A r \in last.reads : r[1] \in 0..31
          /\ IsaKey \notin AssignedKeys => Raised(FromNat(2), last.raw)

\* C23 witness: a word of an unassigned key with every register field at 31
\* raised IllegalInstruction with itself as trap value.
C23_Witness ==
    /\ Fetched /\ IsaKey \notin AssignedKeys /\ (7..11) \cup (15..31) \subseteq last.raw
    /\ Raised(FromNat(2), last.raw)

\* 32-bit arithmetic on two 16-bit limbs, as numbers.
Limb(x, k) == ToNat({i - 16 * k : i \in x \cap ((16 * k)..(16 * k + 15))})
Add32(x, y) ==
    LET lo == Limb(x, 0) + Limb(y, 0)
        hi == Limb(x, 1) + Limb(y, 1) + lo \div 65536
    IN FromNat(lo % 65536) \cup {i + 16 : i \in FromNat(hi % 65536)}
Sub32(x, y) == Add32(x, Add32((0..31) \ y, {0}))
Sext32(x) == (x \cap (0..31)) \cup (IF 31 \in x THEN 32..63 ELSE {})

IsWStep ==
    /\ Fetched
    /\ \/ LastKey % 128 = \b0011011 /\ LastFunct3 \in {0, 1, 5}
       \/ LastKey % 128 = \b0111011 /\ LastFunct3 \in {0, 1, 5}

\* The 32-bit result the W instruction of the last step has by its definition,
\* from the low 32 bits of the pre-instruction operands.
WResult ==
    LET x == EntryGpr(rs1(last.raw)) \cap (0..31)
        imm == LastKey % 128 = \b0011011
        y == IF imm THEN Sext32({i - 20 : i \in last.raw \cap (20..31)} \cup
                                (IF 31 \in last.raw THEN 12..31 ELSE {})) \cap (0..31)
             ELSE EntryGpr(rs2(last.raw)) \cap (0..31)
        n == IF imm THEN ToNat({i - 20 : i \in last.raw \cap (20..24)})
             ELSE ToNat(y \cap (0..4))
    IN CASE LastFunct3 = 0 ->
              IF ~imm /\ 30 \in last.raw THEN Sub32(x, y) ELSE Add32(x, y)
         [] LastFunct3 = 1 -> {i + n : i \in x} \cap (0..31)
         [] LastFunct3 = 5 ->
              ({i - n : i \in x} \cap (0..31))
                  \cup (IF 30 \in last.raw /\ 31 \in x THEN (31 - n)..31 ELSE {})

\* C25: a W-variant instruction writes to gpr[rd] the 32-bit result computed
\* modulo 2^32 from the low 32 bits of its operands, with bits 63..32 all
\* equal to bit 31.
C25_WordArithmetic ==
    (IsWStep /\ LastRd /= 0) =>
        /\ ~Trapped
        /\ gpr[LastRd] \cap (0..31) = WResult
        /\ gpr[LastRd] \cap (32..63) = (IF 31 \in WResult THEN 32..63 ELSE {})

\* C25 witness: ADDW of 0x7FFFFFFF and 1 left 0x80000000, sign-extended, in
\* gpr[rd].
C25_Witness ==
    /\ IsWStep /\ LastFunct3 = 0 /\ LastKey % 128 = \b0111011 /\ 30 \notin last.raw
    /\ EntryGpr(1) = 0..30 /\ EntryGpr(2) = {0}
    /\ gpr[LastRd] = 31..63

\* The J-type immediate imm[20|19:12|11|10:1|0] =
\* raw[31] | raw[19:12] | raw[20] | raw[30:21] | 0, sign-extended to 64 bits.
JImmediate ==
    {i - 20 : i \in last.raw \cap (21..30)}
        \cup (IF 20 \in last.raw THEN {11} ELSE {})
        \cup (last.raw \cap (12..19))
        \cup (IF 31 \in last.raw THEN 20..63 ELSE {})

\* The last step transferred control to `target`: pc holds it, or, when it is
\* not 4-byte aligned, InstructionAddressMisaligned was raised with it.
JumpedTo(target) ==
    IF target \cap {0, 1} = {}
    THEN ~Trapped /\ pc = target
    ELSE Raised(FromNat(0), target)

\* C27: JAL transfers control to pc + j_imm, where j_imm is the 21-bit J-type
\* immediate raw[31] | raw[19:12] | raw[20] | raw[30:21] | 0 sign-extended,
\* including when bits 19..12 differ from the sign bit.
C27_JImmediate ==
    IsJal => JumpedTo(WrappingAdd(last.old.pc, JImmediate, 64))

\* C28: JALR jumps to (v + i_imm) & ~1 with v the value gpr[rs1] held before
\* the instruction, rd == rs1 included, and gpr[rd] receives pc + 4.
C28_JalrTarget ==
    IsJalr =>
        /\ JumpedTo(WrappingAdd(EntryGpr(rs1(last.raw)),
                                Sext32({i - 20 : i \in last.raw \cap (20..31)}
                                           \cup (IF 31 \in last.raw THEN 12..31 ELSE {})),
                                64) \ {0})
        /\ LastRd /= 0 => gpr[LastRd] = WrappingAdd(last.old.pc, {2}, 64)

\* The last step was a CSRRW with rs1 = x0 that the CSR file accepted.
CsrrwFromX0 == IsCsrStep /\ LastFunct3 = 1 /\ rs1(last.raw) = 0 /\ ~Trapped

\* The writable CSRs that hold what is written to them, whatever it is.
PlainCsrs == {SSCRATCH, MSCRATCH, STVAL, MTVAL}

\* C26: of two successive CSRRW instructions with rs1 = x0 on the same plain
\* CSR, the first leaves 0 in the CSR and the second leaves 0 in its rd.
C26_TwoCsrrwFromX0 ==
    [][(CsrrwFromX0 /\ LastCsr \in PlainCsrs /\ CsrrwFromX0' /\ LastCsr' = LastCsr) =>
          /\ csr[FieldOf(LastCsr)] = {}
          /\ LastRd' /= 0 => gpr'[LastRd'] = {}]_vars

\* C26 witness: mscratch held 0x55; the second CSRRW x5, mscratch, x0 of the
\* pair replaced the 0x55 in x5 by 0.
C26_Witness ==
    /\ bus \in {Image(p) : p \in ScenarioTwoCsrrw} /\ instret = 4
    /\ CsrrwFromX0 /\ LastCsr = MSCRATCH /\ LastRd = 5
    /\ last.old.gpr[5] = FromNat(\h55) /\ gpr[5] = {} /\ csr.mscratch = {}

\* The test passes: the call just made returned EnvironmentCall within the
\* budget with a7 == 93 and a0 == 0.
Accepting ==
    /\ last.returned = Err([kind |-> "EnvironmentCall", address |-> {}])
    /\ instret <= MAX_INSTRET
    /\ gpr[17] = FromNat(93) /\ gpr[10] = {}

\* C29: the harness accepts exactly when the first exception execute()
\* returns is EnvironmentCall, within the first MAX_INSTRET + 1 calls, with
\* gpr[17] == 93 and gpr[10] == 0; it fails on any other first exception, on
\* an ECALL with other register values and when the budget is exceeded; and
\* the loop always ends.
C29_HarnessVerdict ==
    /\ [](/\ harness = "running" => last.returned.ok
          /\ harness = "passed" <=> Accepting
          /\ (~last.returned.ok /\ ~Accepting) => harness = "panicked"
          /\ harness = "panicked" =>
                \/ ~last.returned.ok /\ ~Accepting
                \/ last.returned.ok /\ instret > MAX_INSTRET
          /\ last.before.ok
          /\ instret <= MAX_INSTRET + 1)
    /\ (harness = "running" /\ instret > MAX_INSTRET) ~> (harness = "panicked")
    /\ <>(harness /= "running")

\* C29 witness: the test passed on the last call the budget allows.
C29_Witness == harness = "passed" /\ instret = MAX_INSTRET /\ Accepting

\* C30: execute() returns Err(e) exactly when the step raised e (or its fetch
\* failed), a step raises at most once, and the latch is Ok(()) before and
\* after every call, whatever the calls before returned.
C30_LatchCleared ==
    /\ result = Ok
    /\ instret > 0 =>
          /\ last.old.result = Ok
          /\ Len(last.raised) <= 1
          /\ last.fetched =>
                last.returned = IF last.raised = <<>> THEN Ok ELSE Err(last.raised[1])
          /\ ~last.fetched =>
                /\ last.raised = <<>> /\ ~last.returned.ok
                /\ last.returned.err.kind \in
                      {"InstructionAccessFault", "InstructionAddressMisaligned"}

\* C30 witness: a call returned Ok(()) right after a call that returned an
\* exception.
C30_Witness ==
    /\ instret > 1 /\ ~last.before.ok /\ last.fetched /\ last.returned = Ok /\ result = Ok

\* ------------------------------------------------------------ the loader

\* C31: load() issues bus stores only for PT_LOAD program headers: every
\* store it issues belongs to a PT_LOAD program header, writes byte i of
\* that header's file range to vm_start + i inside its vm_range, and the
\* stores of a segment come in increasing i, segment after segment; a
\* program header of any other type has no store.
C31_LoaderStoresOnlyPtLoad ==
    last.loaded =>
        \A j \in 1..Len(last.stores) :
            LET e == last.stores[j]
                h == last.program_headers[e.phdr]
                first == j = 1 \/ last.stores[j - 1].phdr /= e.phdr
            IN /\ h.p_type = "PT_LOAD"
               /\ e.n < h.p_memsz /\ e.n < h.p_filesz
               /\ e.vm_addr = WrappingAdd(h.p_vaddr, FromNat(e.n), 64)
               /\ e.byte = last.elf_data[h.p_offset + e.n + 1]
               /\ first => e.n = 0
               /\ ~first => e.n = last.stores[j - 1].n + 1
               /\ j > 1 => last.stores[j - 1].phdr <= e.phdr

\* ----------------------------------------------- misaligned trap values

\* The trap value v is not a multiple of the w bytes of the access.
MisalignedFor(v, w) == ToNat(Trunc(v, 3)) % w /= 0

\* C32: whenever a Hart over the Memory, or a BaseHart over the TestBus,
\* raises InstructionAddressMisaligned or LoadAddressMisaligned, the value
\* reported is the address of the access the step issued (the pc of the
\* 4-byte fetch, or the effective address of the load) and is not a
\* multiple of the access width, or it is the target of the jump or taken
\* branch the step executed and has target & 0b11 /= 0.
C32_MisalignedTrapValue ==
    instret > 0 =>
        IF IsBaseHart
        THEN ~last.returned.ok =>
                LET e == last.returned.err
                IN /\ e.kind = "InstructionAddressMisaligned" =>
                         \/ ~Fetched /\ e.address = {last.old.pc}
                                     /\ MisalignedFor(last.old.pc, 4)
                         \/ MisalignedTransfer /\ e.address = {LastTarget}
                   /\ e.kind = "LoadAddressMisaligned" =>
                         IsLoad /\ e.address = {LoadEa} /\ MisalignedFor(LoadEa, MnemonicWidth)
        ELSE \A j \in 1..Len(last.traps) :
                LET t == last.traps[j]
                IN /\ t.cause = InstructionAddressMisaligned =>
                         \/ ~Fetched /\ t.value = last.old.pc /\ MisalignedFor(last.old.pc, 4)
                         \/ MisalignedTransfer /\ t.value = LastTarget
                   /\ t.cause = LoadAddressMisaligned =>
                         IsLoad /\ t.value = LoadEa /\ MisalignedFor(LoadEa, LoadBusWidth)

\* C32 witness: a BaseHart raised LoadAddressMisaligned for a load through
\* the TestBus.
C32_Witness ==
    /\ IsBaseHart /\ instret > 0 /\ IsLoad /\ ~last.returned.ok
    /\ last.returned.err.kind = "LoadAddressMisaligned"

\* ------------------------------------------------------- vectored traps

\* C33: a trap raised by an instruction while the selected tvec has mode 1
\* (vectored) still redirects control to a handler: after execute() pc is
\* tvec.base or tvec.base + 4 * cause_code.
C33_VectoredTrapRedirects ==
    (Fetched /\ Trapped /\ Tvec_mode(SelectedTvec) = {0}) =>
        \/ pc = Tvec_base(SelectedTvec)
        \/ pc = WrappingAdd(Tvec_base(SelectedTvec), Shl(LastTrap.cause, 2, 64), 64)

\* ------------------------------------------------ privilege after Hart::new

\* C34: from Hart::new the privilege level is Machine in every state: every
\* trap is handled by the machine handler, whatever medeleg holds (only
\* mcause, mepc and mtval change), and ECALL raises the environment call
\* from M-mode.
C34_AlwaysMachine ==
    /\ privilege = Machine
    /\ Trapped =>
          /\ csr.mcause = LastTrap.cause /\ csr.mtval = LastTrap.value
          /\ CsrUnchangedExcept({"mcause", "mepc", "mtval"})
    /\ (IsEcallEbreak /\ 20 \notin last.raw) => Raised(EnvironmentCallFromMMode, {})

\* C34 witness: an exception whose medeleg bit is set was handled in Machine
\* mode.
C34_Witness ==
    /\ Trapped /\ ToNat(LastTrap.cause) \in last.old.csr.medeleg
    /\ privilege = Machine /\ csr.scause = {} /\ csr.mcause = LastTrap.cause

\* ------------------------------------------------------------- mideleg

\* The step executed a CSR instruction addressed to 0x303, where the
\* privileged architecture puts mideleg.
IsMidelegStep == IsCsrStep /\ LastCsr = \h303

\* C35: from Hart::new mideleg is 0 in every state: a CSR instruction at
\* address 0x303 raises IllegalInstruction with the instruction word as trap
\* value and changes no CSR but the trap registers, so a trap is handed to
\* the handler that medeleg alone selects.
C35_MidelegZero ==
    /\ csr.mideleg = {}
    /\ IsMidelegStep =>
          /\ Raised(IllegalInstruction, last.raw)
          /\ CsrUnchangedExcept(TrapRegs)
    /\ \A cause \in {FromNat(n) : n \in 0..15} :
          is_delegated(csr.medeleg, cause) \/ is_delegated(csr.mideleg, cause)
              <=> is_delegated(csr.medeleg, cause)

\* C35 witness: a CSR instruction that would write ones to address 0x303 was
\* rejected.
C35_Witness ==
    IsMidelegStep /\ LastFunct3 = 5 /\ uimm(last.raw) /= {} /\ Trapped /\ csr.mideleg = {}

\* ------------------------------------------------- CSR reads in Machine mode

\* A CSRRS with rs1 = x0 on an address that Hart::csr dispatches was executed
\* in Machine mode.
MachineRead ==
    /\ IsCsrStep /\ LastFunct3 = 2 /\ rs1(last.raw) = 0
    /\ LastCsr \in Implemented
    /\ last.old.privilege = Machine

\* C36: in Machine mode CSRRS rd, csr, x0 on any address that Hart::csr
\* dispatches, the supervisor-level CSRs included, raises no trap, leaves the
\* CSR file unchanged and writes the CSR's value to gpr[rd] (the value is
\* stated for the CSRs other than the two views of the status word).
C36_MachineReadsEveryCsr ==
    MachineRead =>
        /\ last.traps = <<>>
        /\ csr = last.old.csr
        /\ FieldOf(LastCsr) /= "status" => gpr[LastRd] = last.old.csr[FieldOf(LastCsr)]

\* ------------------------------------------------- Hart against BaseHart

\* A BaseHart over the same Memory, in the state the Hart of the last step
\* started from.
BaseHartBefore ==
    [B |-> "Memory", bus |-> last.old.bus, pc |-> last.old.pc, next |-> last.old.next,
     gpr |-> last.old.gpr, csr |-> <<>>, result |-> Ok, raised |-> <<>>, reads |-> {}]

\* C37: for every non-CSR instruction that Hart executes without a trap,
\* and BaseHart, started from the same pc, GPRs and memory, executes without
\* an exception, the two end with the same GPRs, memory and next (pc, which
\* both take from next, included).
C37_HartsAgree ==
    (Fetched /\ ~IsCsrStep /\ ~Trapped) =>
        \A b \in {BaseHart_execute(BaseHartBefore, access) : access \in CsrOutcomes} :
            b.returned.ok =>
                /\ b.hart.gpr = gpr
                /\ b.hart.bus = bus
                /\ b.hart.next = next
                /\ b.hart.pc = pc

\* ------------------------------------------------- the frame of a trap

\* The causes and values handed to Hart::trap below: exceptions and
\* interrupts, delegated or not.
TrapInputs ==
    {<<cause, value>> : cause \in {exception(code) : code \in {0, 2, 3, 9, 11}}
                                    \cup {interrupt(code) : code \in {0, 5}},
                        value \in {{}, {0, 2, 63}}}

\* C38: a trap handled in Supervisor mode writes only scause, sepc and stval,
\* a trap handled in Machine mode only mcause, mepc and mtval; the GPRs, the
\* memory and every other CSR (status, medeleg, mideleg, mtvec, stvec
\* included) are as the trap transition found them.  Stated for the step
\* that trapped (whose JAL/JALR may have written gpr[rd] before the trap)
\* and for Hart::trap applied to every reachable state.
C38_TrapWritesOnlyItsRegisters ==
    /\ Trapped =>
          /\ CsrUnchangedExcept(TrapRegs)
          /\ csr[CauseReg] = LastTrap.cause /\ csr[TvalReg] = LastTrap.value
          /\ bus = last.old.bus
          /\ \A i \in 1..31 : gpr[i] = last.old.gpr[i] \/ ((IsJal \/ IsJalr) /\ i = LastRd)
    /\ \A t \in TrapInputs :
          \A h \in {trap(Hart, t[1], t[2])} :
              LET regs == IF h.privilege = Supervisor THEN {"scause", "sepc", "stval"}
                          ELSE {"mcause", "mepc", "mtval"}
              IN /\ h.privilege \in {Supervisor, Machine}
                 /\ \A f \in (DOMAIN csr) \ regs : h.csr[f] = csr[f]
                 /\ h.csr[IF h.privilege = Supervisor THEN "scause" ELSE "mcause"] = t[1]
                 /\ h.csr[IF h.privilege = Supervisor THEN "stval" ELSE "mtval"] = t[2]
                 /\ h.gpr = gpr /\ h.bus = bus /\ h.pc = pc

\* C38 witness: an exception at a non-zero pc was handled in Supervisor mode:
\* scause and sepc were written while mcause, mepc and mtval still hold the
\* zeros of Hart::new.
C38_Witness ==
    /\ Trapped /\ HandledBySupervisor /\ csr.scause = LastTrap.cause
    /\ csr.scause /= {} /\ csr.sepc /= {} /\ csr.sepc = last.old.pc
    /\ csr.mcause = {} /\ csr.mepc = {} /\ csr.mtval = {}

\* ------------------------------------------- BaseHart: pc after an exception

\* C39: when BaseHart::execute returns an exception that a handler raised
\* (ECALL, EBREAK, an illegal instruction, a load or store fault, a
\* misaligned jump or branch target), pc <- next has been committed and pc
\* is the old pc + 4; when it returns a fetch fault, pc, next, the GPRs and
\* the memory are as before the call.
C39_PcAfterException ==
    (instret > 0 /\ ~last.returned.ok) =>
        IF Fetched
        THEN /\ pc = WrappingAdd(last.old.pc, FromNat(4), 64)
             /\ next = pc
             /\ last.raised = <<last.returned.err>>
        ELSE /\ pc = last.old.pc /\ next = last.old.next
             /\ gpr = last.old.gpr /\ bus = last.old.bus
             /\ last.returned.err = Exception("InstructionAccessFault", pc)

\* C39 witness: a JAL to a misaligned target returned
\* InstructionAddressMisaligned and pc moved on to the next instruction.
C39_Witness ==
    /\ instret > 0 /\ IsJal /\ ~last.returned.ok
    /\ last.returned.err.kind = "InstructionAddressMisaligned"
    /\ pc = WrappingAdd(last.old.pc, FromNat(4), 64) /\ pc /= last.old.pc

====
